---------------------------- MODULE Spec2Model ----------------------------
(***************************************************************************)
(* A model of Tools/FitMotion/fit_motion.py: the curve parser              *)
(* (build_bone_curves), the skeleton loader, the contact detector, the     *)
(* phase-estimation cascade and the stride correction of                   *)
(* fit_fbx_to_fourier.                                                     *)
(*                                                                         *)
(* Numbers.  The program computes in binary floating point; the model      *)
(* computes the same expressions exactly, over rationals <<num, den>> kept *)
(* in lowest terms with den > 0.  Times are in milliseconds (0.001 s is    *)
(* <<1, 1>>), foot heights in millimetres (0.01 m is <<10, 1>>); every     *)
(* literal of the source is converted to these units where it is used.     *)
(* Rounding error of the floating-point evaluation is not modelled.        *)
(***************************************************************************)
EXTENDS Integers, Sequences, FiniteSets, TLC

VARIABLES
    \* ---- one run of fit_fbx_to_fourier
    pc,              \* where the run stands
    skeleton_swift,  \* the --skeleton-swift argument and what the file holds
    duration,        \* clip duration returned by build_bone_curves, in ms
    fps,             \* --fps
    sample_count,
    t_samples,
    phi,
    phase_mode,
    cycle_duration,
    skeleton,        \* what parse_skeleton_humanoid8 returned
    contacts_left,
    contacts_right,
    left_y,
    right_y,
    calls,           \* the phase strategies called so far, with what each returned
    payload,         \* what was written to output_path
    \* ---- one call of build_bone_curves
    cpc,             \* where the call stands
    text,            \* the records the four regular expressions find in the FBX text
    model_id_to_name,
    curve_node_bindings,
    curve_bindings,
    curves,
    todo,            \* the items of curve_bindings the loop has yet to visit
    bone_anims,
    max_time,
    returned,        \* the pair build_bone_curves returned
    \* ---- one call of a function of the module on its own
    fpc,             \* "call" before the function runs, "done" after
    called,          \* the function called
    call_args,       \* its arguments
    call_result      \* what it returned

run_vars == <<pc, skeleton_swift, duration, fps, sample_count, t_samples, phi, phase_mode,
              cycle_duration, skeleton, contacts_left, contacts_right, left_y, right_y,
              calls, payload>>

curve_vars == <<cpc, text, model_id_to_name, curve_node_bindings, curve_bindings, curves,
                todo, bone_anims, max_time, returned>>

call_vars == <<fpc, called, call_args, call_result>>

vars == <<run_vars, curve_vars, call_vars>>

-----------------------------------------------------------------------------
(* Exact rational arithmetic standing for Python's float arithmetic.        *)

Abs(a) == IF a < 0 THEN -a ELSE a

RECURSIVE GCD(_, _)
GCD(a, b) == IF b = 0 THEN a ELSE GCD(b, a % b)

\* the rational a/b (b # 0) in lowest terms, denominator positive
Rat(a, b) ==
    LET g == GCD(Abs(a), Abs(b))
        s == IF b < 0 THEN -1 ELSE 1
    IN  <<s * (a \div g), s * (b \div g)>>

R(i) == <<i, 1>>
Zero == R(0)
One == R(1)

RAdd(x, y) ==
    LET g == GCD(x[2], y[2])
    IN  Rat(x[1] * (y[2] \div g) + y[1] * (x[2] \div g), (x[2] \div g) * y[2])
RNeg(x) == <<-x[1], x[2]>>
RSub(x, y) == RAdd(x, RNeg(y))
RMul(x, y) ==
    LET g1 == GCD(Abs(x[1]), y[2])
        g2 == GCD(Abs(y[1]), x[2])
    IN  IF x[1] = 0 \/ y[1] = 0 THEN Zero
        ELSE Rat((x[1] \div g1) * (y[1] \div g2), (x[2] \div g2) * (y[2] \div g1))
\* x / y, y # 0
RDiv(x, y) == RMul(x, Rat(y[2], y[1]))
RLt(x, y) ==
    LET g == GCD(x[2], y[2])
    IN  x[1] * (y[2] \div g) < y[1] * (x[2] \div g)
RLe(x, y) == ~RLt(y, x)
RMax(x, y) == IF RLt(x, y) THEN y ELSE x
RMin(x, y) == IF RLt(y, x) THEN y ELSE x
RAbs(x) == <<Abs(x[1]), x[2]>>
\* math.floor
RFloor(x) == x[1] \div x[2]
\* int(): truncation toward zero
RInt(x) == IF x[1] >= 0 THEN x[1] \div x[2] ELSE -((-x[1]) \div x[2])
\* Python's float %: the result has the sign of the (positive) divisor
RMod(x, p) == RSub(x, RMul(p, R(RFloor(RDiv(x, p)))))

Last(s) == s[Len(s)]

\* a list given by its elements, as a tuple (evaluated once, element by element)
List(f) == SubSeq(f, 1, Len(f))

\* s[lo] + ... + s[hi], split in halves so that the evaluation stays shallow
RECURSIVE RSumRange(_, _, _)
RSumRange(s, lo, hi) ==
    IF lo > hi THEN Zero
    ELSE IF lo = hi THEN s[lo]
    ELSE LET mid == (lo + hi) \div 2
         IN  RAdd(RSumRange(s, lo, mid), RSumRange(s, mid + 1, hi))
\* sum(list)
RSum(s) == RSumRange(s, 1, Len(s))

\* max(list), min(list) of a non-empty list
RMaxSeq(s) == s[CHOOSE i \in 1..Len(s) : \A j \in 1..Len(s) : RLe(s[j], s[i])]
RMinSeq(s) == s[CHOOSE i \in 1..Len(s) : \A j \in 1..Len(s) : RLe(s[i], s[j])]

\* the members of a set of sample indices in ascending order
Ascending(S) ==
    List([k \in 1..Cardinality(S) |->
             CHOOSE i \in S : Cardinality({j \in S : j < i}) = k - 1])


-----------------------------------------------------------------------------
(* Contact detector: compute_weights, nested in compute_foot_contacts.      *)

\* sorted(ys)[k] (k counted from 0): the value with at most k samples below it and more
\* than k samples at or below it
SortedAt(ys, k) ==
    LET idx == CHOOSE i \in 1..Len(ys) :
                   /\ Cardinality({j \in 1..Len(ys) : RLt(ys[j], ys[i])}) <= k
                   /\ Cardinality({j \in 1..Len(ys) : RLe(ys[j], ys[i])}) > k
    IN  ys[idx]

\* a variant: max(lo, x)
Clamp_NoUpper(x, lo, hi) == RMax(lo, x)

\* max(lo, min(hi, x))
Clamp(x, lo, hi) == RMax(lo, RMin(hi, x))

\* half-width of the moving-average window
win == 5

\* velocities = [0.0] + [(ys[i] - ys[i-1]) * len(ys) ...]
Velocities(ys) ==
    List([i \in 1..Len(ys) |->
        IF i = 1 THEN Zero ELSE RMul(RSub(ys[i], ys[i - 1]), R(Len(ys)))])

\* the unsmoothed score h * v of every sample
RawWeights(ys) ==
    LET n == Len(ys)
        \* sorted_y[max(0, int(n * 0.05) - 1)], sorted_y[min(n - 1, int(n * 0.95))]
        lo_idx == IF (n \div 20) - 1 > 0 THEN (n \div 20) - 1 ELSE 0
        hi_idx == IF n - 1 < (19 * n) \div 20 THEN n - 1 ELSE (19 * n) \div 20
        y_min == SortedAt(ys, lo_idx)
        y_max == SortedAt(ys, hi_idx)
        \* max(y_max - y_min, 1e-4)
        height_range == RMax(RSub(y_max, y_min), <<1, 10>>)
        \* max(height_range * 0.15, 0.01)
        height_thresh == RMax(RMul(height_range, <<3, 20>>), R(10))
        velocities == Velocities(ys)
        vel_max == RMaxSeq(List([i \in 1..n |-> RAbs(velocities[i])]))
        \* max(vel_max * 0.25, 0.05)
        vel_thresh == RMax(RMul(vel_max, <<1, 4>>), R(50))
    IN  List([i \in 1..n |->
            LET h == Clamp(RSub(One, RDiv(RSub(ys[i], y_min), height_thresh)), Zero, One)
                v == Clamp(RSub(One, RDiv(RAbs(velocities[i]), vel_thresh)), Zero, One)
            IN  RMul(h, v)])

\* sum(weights[start:end]) / (end - start), start = max(0, i - win), end = min(n, i + win + 1)
Smooth(weights) ==
    LET n == Len(weights)
    IN  List([i \in 1..n |->
            LET start == IF i - 1 - win > 0 THEN i - 1 - win ELSE 0
                end == IF n < i + win THEN n ELSE i + win
            IN  RDiv(RSumRange(weights, start + 1, end), R(end - start))])

compute_weights(ys) == IF ys = <<>> THEN <<>> ELSE LET weights == RawWeights(ys) IN Smooth(weights)

-----------------------------------------------------------------------------
(* Phase strategies.  Each returns [phase, period]; "return [], 0.0" is     *)
(* NoResult.                                                                *)

NoResult == [phase |-> <<>>, period |-> Zero]

\* the events of compute_phase_from_contacts: times[i] for every i >= 1 (counted from 0)
\* with weights[i - 1] < threshold and weights[i] >= threshold
RisingEdges(times, weights, threshold) ==
    LET at == Ascending({i \in 2..Len(weights) :
                            RLt(weights[i - 1], threshold) /\ RLe(threshold, weights[i])})
    IN  List([k \in 1..Len(at) |-> times[at[k]]])

\* sum(gaps) / len(gaps) with gaps = [events[i + k] - events[i] ...]
MeanGap(events, k) ==
    RDiv(RSum(List([i \in 1..(Len(events) - k) |-> RSub(events[i + k], events[i])])),
         R(Len(events) - k))

\* a variant: the every-other mean preferred from 1.5 times the adjacent mean on
AvgPeriod_FromTie(events) ==
    LET avg_adj == MeanGap(events, 1)
    IN  IF Len(events) >= 3 /\ RLe(RMul(avg_adj, <<3, 2>>), MeanGap(events, 2))
        THEN MeanGap(events, 2)
        ELSE avg_adj

\* a variant: the adjacent mean, whatever the number of events
AvgPeriod_AdjacentOnly(events) == MeanGap(events, 1)

\* avg_period of two or more events
AvgPeriod(events) ==
    LET avg_adj == MeanGap(events, 1)
    IN  IF Len(events) >= 3 /\ RLt(RMul(avg_adj, <<3, 2>>), MeanGap(events, 2))
        THEN MeanGap(events, 2)
        ELSE avg_adj

\* event_index (counted from 0) once the while loop has run for sample time t:
\*   while event_index + 1 < len(events) and t >= events[event_index + 1]: event_index += 1
\* The index is carried from one sample to the next; the sample times ascend, so it is
\* the number of leading events after the first that lie at or before t.
EventIndex(events, t) ==
    Cardinality({k \in 1..(Len(events) - 1) : \A j \in 1..k : RLe(events[j + 1], t)})

\* a variant: the fractional part taken by truncation toward zero
Frac_Truncating(x) == RSub(x, R(RInt(x)))

\* phi - math.floor(phi)
Frac(x) == RSub(x, R(RFloor(x)))

\* phi = (t - events[event_index]) / avg_period; phi = phi - math.floor(phi)
EventPhase(times, events, avg_period) ==
    List([i \in 1..Len(times) |->
        Frac(RDiv(RSub(times[i], events[EventIndex(events, times[i]) + 1]), avg_period))])

\* a variant: the gaps taken as events[i] - events[i + 1], the guard testing for zero only
compute_phase_from_events_SignSlip(times, events) ==
    IF Len(events) < 2 THEN NoResult
    ELSE LET avg_period == RNeg(AvgPeriod(events))
         IN  IF avg_period = Zero THEN NoResult
             ELSE [phase |-> EventPhase(times, events, avg_period), period |-> avg_period]

compute_phase_from_events(times, events) ==
    IF Len(events) < 2 THEN NoResult
    ELSE LET avg_period == AvgPeriod(events)
         IN  IF RLe(avg_period, Zero) THEN NoResult
             ELSE [phase |-> EventPhase(times, events, avg_period), period |-> avg_period]

\* the threshold in force: 0.5, lowered to 0.6 * max(weights) when max(weights) < 0.5
ContactThreshold(weights) ==
    IF RLt(RMaxSeq(weights), <<1, 2>>) THEN RMul(RMaxSeq(weights), <<3, 5>>) ELSE <<1, 2>>

ContactEvents(times, weights) == RisingEdges(times, weights, ContactThreshold(weights))

compute_phase_from_contacts(times, weights) ==
    IF times = <<>> \/ weights = <<>> THEN NoResult
    ELSE IF RLe(RMaxSeq(weights), Zero) THEN NoResult
    ELSE LET events == ContactEvents(times, weights)
         IN  IF Len(events) < 2 THEN NoResult
             ELSE LET avg_period == AvgPeriod(events)
                  IN  IF RLe(avg_period, Zero) THEN NoResult
                      ELSE [phase |-> EventPhase(times, events, avg_period),
                            period |-> avg_period]

\* The sample indices detect_minima_events accepts after index last (0: none accepted
\* yet, last_t = -1e9, which no sample time of the model comes near, so that
\* t - last_t >= min_spacing holds): the next local minimum at or below the threshold
\* that is min_spacing after times[last], then those after it.
RECURSIVE AcceptedMinima(_, _, _, _, _)
AcceptedMinima(times, values, threshold, min_spacing, last) ==
    LET next == {i \in (IF last = 0 THEN 2 ELSE last + 1)..(Len(values) - 1) :
                    /\ RLe(values[i], values[i - 1])
                    /\ RLe(values[i], values[i + 1])
                    /\ RLe(values[i], threshold)
                    /\ (last = 0 \/ RLe(min_spacing, RSub(times[i], times[last])))}
    IN  IF next = {} THEN <<>>
        ELSE LET i == CHOOSE m \in next : \A o \in next : m <= o
             IN  <<times[i]>> \o AcceptedMinima(times, values, threshold, min_spacing, i)

\* a variant: without the guard v_max - v_min <= 1e-4
detect_minima_events_NoRangeGuard(times, values) ==
    IF Len(values) < 3 THEN <<>>
    ELSE LET v_min == RMinSeq(values)
             v_max == RMaxSeq(values)
             threshold == RAdd(v_min, RMul(RSub(v_max, v_min), <<1, 4>>))
             min_spacing == RMul(RDiv(RSub(Last(times), times[1]), R(Len(times))), R(10))
         IN  AcceptedMinima(times, values, threshold, min_spacing, 0)

detect_minima_events(times, values) ==
    IF Len(values) < 3 THEN <<>>
    ELSE LET v_min == RMinSeq(values)
             v_max == RMaxSeq(values)
         IN  \* v_max - v_min <= 1e-4
             IF RLe(RSub(v_max, v_min), <<1, 10>>) THEN <<>>
             ELSE LET threshold == RAdd(v_min, RMul(RSub(v_max, v_min), <<1, 4>>))
                      min_spacing ==
                          RMul(RDiv(RSub(Last(times), times[1]), R(Len(times))), R(10))
                  IN  AcceptedMinima(times, values, threshold, min_spacing, 0)

\* corr = sum(centered[i] * centered[i + lag] for i in range(n - lag))
Corr(centered, lag) ==
    RSum(List([i \in 1..(Len(centered) - lag) |-> RMul(centered[i], centered[i + lag])]))

\* best_lag after the scan (corr > best_corr replaces, so the first lag of the largest
\* corr wins; best_corr starts at -1e9, below every corr of the model) and after the
\* "preferred" pass (the largest lag with corr >= 0.9 * best_corr); 0 for an empty range
BestLag(corr, min_lag, max_lag) ==
    IF min_lag > max_lag THEN 0
    ELSE LET lags == min_lag..max_lag
             first_best == CHOOSE lag \in lags :
                               /\ \A o \in lags : RLe(corr[o], corr[lag])
                               /\ \A o \in lags : o < lag => RLt(corr[o], corr[lag])
             threshold == RMul(corr[first_best], <<9, 10>>)
             preferred == {lag \in lags : RLe(threshold, corr[lag])}
         IN  IF preferred = {} THEN first_best
             ELSE CHOOSE lag \in preferred : \A o \in preferred : o <= lag

\* max(2, int(0.2 / max(dt, 1e-6)))
MinLag(dt) ==
    LET lag0 == RInt(RDiv(R(200), RMax(dt, <<1, 1000>>)))
    IN  IF lag0 > 2 THEN lag0 ELSE 2

\* min(n - 2, int(0.9 * n))
MaxLag(n) == IF n - 2 < (9 * n) \div 10 THEN n - 2 ELSE (9 * n) \div 10

compute_phase_from_autocorr(times, values) ==
    IF Len(times) < 4 \/ Len(values) # Len(times) THEN NoResult
    ELSE LET time_span == RSub(Last(times), times[1])    \* the local "duration"
             n == Len(values)
             mean == RDiv(RSum(values), R(n))
             centered == List([i \in 1..n |-> RSub(values[i], mean)])
             var == Corr(centered, 0)    \* sum(v * v for v in centered)
         IN  IF RLe(time_span, Zero) THEN NoResult
             \* var <= 1e-6
             ELSE IF RLe(var, One) THEN NoResult
             ELSE LET dt == RDiv(time_span, R(n))
                      min_lag == MinLag(dt)
                      max_lag == MaxLag(n)
                      corr == [lag \in min_lag..max_lag |-> Corr(centered, lag)]
                      best_lag == BestLag(corr, min_lag, max_lag)
                      period == RMul(R(best_lag), dt)
                  IN  IF best_lag <= 0 THEN NoResult
                      ELSE IF RLe(period, Zero) THEN NoResult
                      ELSE [phase |-> List([i \in 1..n |->
                                          RDiv(RMod(RSub(times[i], times[1]), period), period)]),
                            period |-> period]


-----------------------------------------------------------------------------
(* Inputs of a run.                                                         *)

\* clip durations in ms: the floor value of build_bone_curves and longer clips
Durations == {R(1), R(400), R(2000), R(2750)}
FpsValues == {10}

left_name == "mixamorig:LeftFoot"
right_name == "mixamorig:RightFoot"

\* The skeleton argument: omitted, naming no file, or naming a file.  Of a file the
\* model keeps what parse_skeleton_humanoid8 looks at: whether every marker, block and
\* the scale are found, the names, the parent indices, and how many translations and
\* pre-rotations are listed.
NameLists ==
    { <<"mixamorig:Hips", left_name, right_name>>,
      <<"mixamorig:Hips", left_name, "mixamorig:Spine">>,
      <<"mixamorig:Hips", "mixamorig:Spine", "mixamorig:Head">> }
ParentLists == { <<-1, 0, 0>>, <<-1, 0>>, <<-1, 2, 0>>, <<-1, 1, 0>>, <<-1, 0, 3>> }
BoneCounts == {2, 3}

NoSkeleton(path) ==
    [path |-> path, found |-> FALSE, names |-> <<>>, parent |-> <<>>,
     translations |-> 0, pre_rotations |-> 0]

SkeletonInputs ==
    {NoSkeleton("omitted"), NoSkeleton("missing")}
    \cup [path : {"file"}, found : BOOLEAN, names : NameLists, parent : ParentLists,
          translations : BoneCounts, pre_rotations : BoneCounts]

\* Foot heights the kinematics evaluator can return, in mm: a gait cycle of P samples,
\* the foot on the ground for the first half and lifted along a triangle of peak A
\* for the second, starting off samples into the cycle.
MaxAmp == 100
MaxPeriod == 15
MaxOffset == 3
Amps == {0, 1, 30, MaxAmp}
Periods == {6, 8, MaxPeriod}
Offsets == {0, MaxOffset}

Sig(n, P, off, A) ==
    [i \in 1..n |->
        LET k == (i - 1 + off) % P
            G == P \div 2
            j == k - G + 1
            m == P - G + 1
        IN  IF k < G THEN R(0)
            ELSE R((A * (IF j < m - j THEN j ELSE m - j) * 2) \div m)]

\* a foot that leaves the ground by A mm at the samples (counted from 1) in lifted
Pulse(n, A, lifted) == [i \in 1..n |-> IF i \in lifted THEN R(A) ELSE Zero]

\* two shallow lifts far apart, whose minima lie 15 samples apart, and a single
\* sample 1 mm off the ground, whose variance is below the autocorrelation's guard
Pulses(n) == {Pulse(n, 5, {2, 3} \cup (13..18)), Pulse(n, 1, {10})}

Signals(n) ==
    {Sig(n, P, off, A) : P \in Periods, off \in Offsets, A \in Amps} \cup Pulses(n)

-----------------------------------------------------------------------------
(* parse_skeleton_humanoid8                                                 *)

\* a variant: only names and parent are compared
SkeletonParseFails_NamesParentOnly(res) ==
    \/ ~res.found
    \/ Len(res.names) # Len(res.parent)

\* the ValueErrors "Failed to find ..." and "Skeleton arrays mismatch"
SkeletonParseFails(res) ==
    \/ ~res.found
    \/ Len(res.names) # Len(res.parent)
    \/ Len(res.names) # res.translations
    \/ Len(res.names) # res.pre_rotations

parse_skeleton_humanoid8(res) == [names |-> res.names, parent |-> res.parent]

NoSkeletonLoaded == [names |-> <<>>, parent |-> <<>>]

-----------------------------------------------------------------------------
(* compute_foot_contacts and build_model_transforms                         *)

\* name_to_index, counted from 0
HasBone(skel, name) == \E i \in 1..Len(skel.names) : skel.names[i] = name
BoneIndex(skel, name) == (CHOOSE i \in 1..Len(skel.names) : skel.names[i] = name) - 1

\* "if left_name not in name_to_index or right_name not in name_to_index: return [], []"
FeetMissing(skel) == ~HasBone(skel, left_name) \/ ~HasBone(skel, right_name)

\* model[p] raises IndexError for a parent index past the last bone
ParentOutOfRange(skel) ==
    \E i \in 1..Len(skel.parent) : skel.parent[i] >= Len(skel.parent)

\* build_model_transforms composes model[i] = model[p] * local[i] in one pass over the
\* bones.  Composed(skel, i) says that bone i (counted from 0) got the product of the
\* local transforms along its chain; with a parent p >= i the pass multiplies by
\* model[p] before it is computed, which is the zero matrix.
RECURSIVE Composed(_, _)
Composed(skel, i) ==
    LET p == skel.parent[i + 1]
    IN  p < 0 \/ (p < i /\ Composed(skel, p))

\* the heights (y of transform_point) of a foot: those of the animated chain, or 0.0 at
\* every sample when the model matrix of the foot is the zero matrix
FootHeights(skel, name, n) ==
    IF Composed(skel, BoneIndex(skel, name)) THEN Signals(n) ELSE {[i \in 1..n |-> Zero]}

-----------------------------------------------------------------------------
(* fit_fbx_to_fourier                                                       *)

\* round(x) of Python: to the nearest integer, a tie to the even one
RRound(x) ==
    LET f == RFloor(x)
        rest == RSub(x, R(f))
    IN  IF RLt(rest, <<1, 2>>) THEN f
        ELSE IF RLt(<<1, 2>>, rest) THEN f + 1
        ELSE IF f % 2 = 0 THEN f ELSE f + 1

\* a variant: max(2, round(duration * fps))
SampleCount_Rounded(d, f) ==
    LET c == RRound(RDiv(RMul(d, R(f)), R(1000)))
    IN  IF c > 2 THEN c ELSE 2

\* max(2, int(duration * fps)), duration in ms
SampleCount(d, f) ==
    LET c == RInt(RDiv(RMul(d, R(f)), R(1000)))
    IN  IF c > 2 THEN c ELSE 2

\* [(i / sample_count) * duration for i in range(sample_count)]
SampleTimes(d, n) == List([i \in 1..n |-> RMul(Rat(i - 1, n), d)])

\* a variant: the end point 1.0 included
NormalizedPhase_Inclusive(n) == List([i \in 1..(n + 1) |-> Rat(i - 1, n)])

\* [i / sample_count for i in range(sample_count)]
NormalizedPhase(n) == List([i \in 1..n |-> Rat(i - 1, n)])

\* role: "strategy" for a step of the cascade, "refinement" for the autocorrelation
\* tried after a minima strategy succeeded
Call(fn, foot, role, result) == [fn |-> fn, foot |-> foot, role |-> role, result |-> result]

\* the variables of a single function call while a run or a parse is modelled
CallIdle ==
    /\ fpc = "idle"
    /\ called = ""
    /\ call_args = <<>>
    /\ call_result = <<>>

\* the variables of a build_bone_curves call while a run of fit_fbx_to_fourier is modelled
CurvesIdle ==
    /\ cpc = "idle"
    /\ text = [models |-> <<>>, nodes |-> <<>>, conns |-> <<>>, blocks |-> <<>>]
    /\ model_id_to_name = <<>>
    /\ curve_node_bindings = <<>>
    /\ curve_bindings = <<>>
    /\ curves = <<>>
    /\ todo = <<>>
    /\ bone_anims = <<>>
    /\ max_time = Zero
    /\ returned = [done |-> FALSE]

Init ==
    /\ CurvesIdle
    /\ CallIdle
    /\ pc = "start"
    /\ skeleton_swift \in SkeletonInputs
    /\ duration \in Durations
    /\ fps \in FpsValues
    /\ sample_count = 0
    /\ t_samples = <<>>
    /\ phi = <<>>
    /\ phase_mode = ""
    /\ cycle_duration = Zero
    /\ skeleton = NoSkeletonLoaded
    /\ contacts_left = <<>>
    /\ contacts_right = <<>>
    /\ left_y = <<>>
    /\ right_y = <<>>
    /\ calls = <<>>
    /\ payload = [written |-> FALSE]

\* lines 533-541
Sample ==
    /\ pc = "start"
    /\ UNCHANGED <<curve_vars, call_vars>>
    /\ sample_count' = SampleCount(duration, fps)
    /\ t_samples' = SampleTimes(duration, sample_count')
    /\ phi' = NormalizedPhase(sample_count')
    /\ phase_mode' = "normalized_time"
    /\ cycle_duration' = duration
    /\ pc' = "skeleton"
    /\ UNCHANGED <<skeleton_swift, duration, fps, skeleton, contacts_left, contacts_right,
                   left_y, right_y, calls, payload>>

\* a variant: line 542 tests skeleton_swift alone, and reading a file that does not
\* exist raises
SkipSkeleton_MissingRaises ==
    /\ pc = "skeleton"
    /\ UNCHANGED <<curve_vars, call_vars>>
    /\ skeleton_swift.path # "file"
    /\ pc' = IF skeleton_swift.path = "omitted" THEN "fit" ELSE "aborted"
    /\ UNCHANGED <<skeleton_swift, duration, fps, sample_count, t_samples, phi, phase_mode,
                   cycle_duration, skeleton, contacts_left, contacts_right, left_y,
                   right_y, calls, payload>>

\* line 542, the test fails: skeleton_swift is None or names no file
SkipSkeleton ==
    /\ pc = "skeleton"
    /\ UNCHANGED <<curve_vars, call_vars>>
    /\ skeleton_swift.path # "file"
    /\ pc' = "fit"
    /\ UNCHANGED <<skeleton_swift, duration, fps, sample_count, t_samples, phi, phase_mode,
                   cycle_duration, skeleton, contacts_left, contacts_right, left_y,
                   right_y, calls, payload>>

\* line 543, parse_skeleton_humanoid8 raises ValueError: the run ends there
LoadSkeletonFails ==
    /\ pc = "skeleton"
    /\ UNCHANGED <<curve_vars, call_vars>>
    /\ skeleton_swift.path = "file"
    /\ SkeletonParseFails(skeleton_swift)
    /\ pc' = "aborted"
    /\ UNCHANGED <<skeleton_swift, duration, fps, sample_count, t_samples, phi, phase_mode,
                   cycle_duration, skeleton, contacts_left, contacts_right, left_y,
                   right_y, calls, payload>>

\* line 543, parse_skeleton_humanoid8 returns
LoadSkeleton ==
    /\ pc = "skeleton"
    /\ UNCHANGED <<curve_vars, call_vars>>
    /\ skeleton_swift.path = "file"
    /\ ~SkeletonParseFails(skeleton_swift)
    /\ skeleton' = parse_skeleton_humanoid8(skeleton_swift)
    /\ pc' = "contacts"
    /\ UNCHANGED <<skeleton_swift, duration, fps, sample_count, t_samples, phi, phase_mode,
                   cycle_duration, contacts_left, contacts_right, left_y, right_y, calls,
                   payload>>

\* lines 544-549 when compute_foot_contacts returns the pair "[], []": unpacking it into
\* the four targets raises ValueError; and when build_model_transforms raises IndexError
ContactsFail ==
    /\ pc = "contacts"
    /\ UNCHANGED <<curve_vars, call_vars>>
    /\ FeetMissing(skeleton) \/ ParentOutOfRange(skeleton)
    /\ pc' = "aborted"
    /\ UNCHANGED <<skeleton_swift, duration, fps, sample_count, t_samples, phi, phase_mode,
                   cycle_duration, skeleton, contacts_left, contacts_right, left_y,
                   right_y, calls, payload>>

\* lines 544-549, compute_foot_contacts returns the four lists
ComputeFootContacts ==
    /\ pc = "contacts"
    /\ UNCHANGED <<curve_vars, call_vars>>
    /\ ~FeetMissing(skeleton)
    /\ ~ParentOutOfRange(skeleton)
    /\ \E ly \in FootHeights(skeleton, left_name, sample_count),
          ry \in FootHeights(skeleton, right_name, sample_count) :
            /\ left_y' = ly
            /\ right_y' = ry
            /\ contacts_left' = compute_weights(ly)
            /\ contacts_right' = compute_weights(ry)
    /\ pc' = "left_contact"
    /\ UNCHANGED <<skeleton_swift, duration, fps, sample_count, t_samples, phi, phase_mode,
                   cycle_duration, skeleton, calls, payload>>

\* phi, phase_mode, cycle_duration = the result of a strategy, under a label
Adopt(result, label) ==
    /\ phi' = result.phase
    /\ phase_mode' = label
    /\ cycle_duration' = result.period

KeepPhase == UNCHANGED <<phi, phase_mode, cycle_duration>>

\* what no step of the cascade assigns
CascadeFrame ==
    UNCHANGED <<skeleton_swift, duration, fps, sample_count, t_samples, skeleton,
                contacts_left, contacts_right, left_y, right_y, payload>>

\* a variant: the right contacts are tried whether or not the left contacts succeeded
TryLeftContact_NoGuard ==
    /\ pc = "left_contact"
    /\ UNCHANGED <<curve_vars, call_vars>>
    /\ LET r == compute_phase_from_contacts(t_samples, contacts_left)
       IN  /\ calls' =
               Append(calls, Call("compute_phase_from_contacts", "left", "strategy", r))
           /\ IF r.phase # <<>>
              THEN Adopt(r, "left_foot_contact")
              ELSE KeepPhase
    /\ pc' = "right_contact"
    /\ CascadeFrame

\* lines 550-554
TryLeftContact ==
    /\ pc = "left_contact"
    /\ UNCHANGED <<curve_vars, call_vars>>
    /\ LET r == compute_phase_from_contacts(t_samples, contacts_left)
       IN  /\ calls' =
               Append(calls, Call("compute_phase_from_contacts", "left", "strategy", r))
           /\ IF r.phase # <<>>
              THEN Adopt(r, "left_foot_contact") /\ pc' = "stride"
              ELSE KeepPhase /\ pc' = "right_contact"
    /\ CascadeFrame

\* lines 556-560
TryRightContact ==
    /\ pc = "right_contact"
    /\ UNCHANGED <<curve_vars, call_vars>>
    /\ LET r == compute_phase_from_contacts(t_samples, contacts_right)
       IN  /\ calls' =
               Append(calls, Call("compute_phase_from_contacts", "right", "strategy", r))
           /\ IF r.phase # <<>>
              THEN Adopt(r, "right_foot_contact") /\ pc' = "stride"
              ELSE KeepPhase /\ pc' = "left_min"
    /\ CascadeFrame

\* a variant: the refinement attempted whatever the cycle
ShortCycle_Always(period, d) == TRUE

\* cycle_duration < duration * 0.75
ShortCycle(period, d) == RLt(period, RMul(d, <<3, 4>>))

\* lines 562-568
TryLeftMin ==
    /\ pc = "left_min"
    /\ UNCHANGED <<curve_vars, call_vars>>
    /\ LET r == compute_phase_from_events(t_samples, detect_minima_events(t_samples, left_y))
       IN  /\ calls' =
               Append(calls, Call("compute_phase_from_events", "left", "strategy", r))
           /\ IF r.phase # <<>>
              THEN /\ Adopt(r, "left_foot_min")
                   /\ pc' = IF ShortCycle(r.period, duration) THEN "left_refine" ELSE "stride"
              ELSE KeepPhase /\ pc' = "right_min"
    /\ CascadeFrame

\* lines 569-573
RefineLeft ==
    /\ pc = "left_refine"
    /\ UNCHANGED <<curve_vars, call_vars>>
    /\ LET r == compute_phase_from_autocorr(t_samples, left_y)
       IN  /\ calls' =
               Append(calls, Call("compute_phase_from_autocorr", "left", "refinement", r))
           /\ IF r.phase # <<>> THEN Adopt(r, "left_foot_auto") ELSE KeepPhase
    /\ pc' = "stride"
    /\ CascadeFrame

\* lines 575-581
TryRightMin ==
    /\ pc = "right_min"
    /\ UNCHANGED <<curve_vars, call_vars>>
    /\ LET r == compute_phase_from_events(t_samples, detect_minima_events(t_samples, right_y))
       IN  /\ calls' =
               Append(calls, Call("compute_phase_from_events", "right", "strategy", r))
           /\ IF r.phase # <<>>
              THEN /\ Adopt(r, "right_foot_min")
                   /\ pc' = IF ShortCycle(r.period, duration) THEN "right_refine" ELSE "stride"
              ELSE KeepPhase /\ pc' = "autocorr"
    /\ CascadeFrame

\* lines 582-586
RefineRight ==
    /\ pc = "right_refine"
    /\ UNCHANGED <<curve_vars, call_vars>>
    /\ LET r == compute_phase_from_autocorr(t_samples, right_y)
       IN  /\ calls' =
               Append(calls, Call("compute_phase_from_autocorr", "right", "refinement", r))
           /\ IF r.phase # <<>> THEN Adopt(r, "right_foot_auto") ELSE KeepPhase
    /\ pc' = "stride"
    /\ CascadeFrame

\* lines 588-592
TryAutocorr ==
    /\ pc = "autocorr"
    /\ UNCHANGED <<curve_vars, call_vars>>
    /\ LET r == compute_phase_from_autocorr(t_samples, left_y)
       IN  /\ calls' =
               Append(calls, Call("compute_phase_from_autocorr", "left", "strategy", r))
           /\ IF r.phase # <<>> THEN Adopt(r, "left_foot_auto") ELSE KeepPhase
    /\ pc' = "stride"
    /\ CascadeFrame

\* a variant: the ratio taken as cycle_duration / duration
StrideRatio_Inverted(d, cycle) ==
    LET ratio == RDiv(cycle, d)
    IN  RLe(<<9, 5>>, ratio) /\ RLe(ratio, <<11, 5>>)

\* a variant: the interval reaches down to a ratio of 1
StrideRatio_FromOne(d, cycle) ==
    LET ratio == RDiv(d, cycle)
    IN  RLe(One, ratio) /\ RLe(ratio, <<11, 5>>)

\* 1.8 <= duration / cycle_duration <= 2.2
StrideRatio(d, cycle) ==
    LET ratio == RDiv(d, cycle)
    IN  RLe(<<9, 5>>, ratio) /\ RLe(ratio, <<11, 5>>)

\* [(t % cycle_duration) / cycle_duration for t in t_samples]
StridePhase(times, cycle) ==
    List([i \in 1..Len(times) |-> RDiv(RMod(times[i], cycle), cycle)])

\* a variant: the correction doubles the cycle found
StrideCorrection_Doubling ==
    /\ pc = "stride"
    /\ UNCHANGED <<curve_vars, call_vars>>
    /\ IF RLt(Zero, cycle_duration) /\ StrideRatio(duration, cycle_duration)
       THEN /\ cycle_duration' = RMul(R(2), cycle_duration)
            /\ phase_mode' = phase_mode \o "_stride"
            /\ phi' = StridePhase(t_samples, cycle_duration')
       ELSE KeepPhase
    /\ pc' = "fit"
    /\ UNCHANGED calls
    /\ CascadeFrame

\* lines 594-599
StrideCorrection ==
    /\ pc = "stride"
    /\ UNCHANGED <<curve_vars, call_vars>>
    /\ IF RLt(Zero, cycle_duration) /\ StrideRatio(duration, cycle_duration)
       THEN /\ cycle_duration' = duration
            /\ phase_mode' = phase_mode \o "_stride"
            /\ phi' = StridePhase(t_samples, duration)
       ELSE KeepPhase
    /\ pc' = "fit"
    /\ UNCHANGED calls
    /\ CascadeFrame

\* lines 619-640: the payload, once the bones and the contacts are fit
WritePayload ==
    /\ pc = "fit"
    /\ UNCHANGED <<curve_vars, call_vars>>
    /\ payload' = [written |-> TRUE,
                   duration |-> duration,
                   sample_fps |-> fps,
                   phase |-> [mode |-> phase_mode, cycle_duration |-> cycle_duration],
                   has_contacts |-> (contacts_left # <<>> /\ contacts_right # <<>>)]
    /\ pc' = "done"
    /\ UNCHANGED <<skeleton_swift, duration, fps, sample_count, t_samples, phi, phase_mode,
                   cycle_duration, skeleton, contacts_left, contacts_right, left_y,
                   right_y, calls>>

Next ==
    \/ Sample
    \/ SkipSkeleton
    \/ LoadSkeletonFails
    \/ LoadSkeleton
    \/ ContactsFail
    \/ ComputeFootContacts
    \/ TryLeftContact
    \/ TryRightContact
    \/ TryLeftMin
    \/ RefineLeft
    \/ TryRightMin
    \/ RefineRight
    \/ TryAutocorr
    \/ StrideCorrection
    \/ WritePayload

Spec == Init /\ [][Next]_vars

-----------------------------------------------------------------------------
(* build_bone_curves and the four parsers it calls                         *)
(*                                                                         *)
(* The FBX text is modelled by what the four regular expressions find in  *)
(* it, each list in file order:                                            *)
(*   models  the LimbNode lines,      [id, name]                           *)
(*   nodes   the "Lcl ..." OP lines,  [node_id, model_id, channel]         *)
(*   conns   the "d|X" OP lines,      [curve_id, node_id, axis]            *)
(*   blocks  the AnimationCurve blocks, [curve_id, key_time] in raw ticks  *)
(* A dict is a function on the set of its keys; a later record of the same *)
(* key overwrites an earlier one and keeps the key's place in the order.   *)

\* ticks per millisecond: TIME_SCALE = 46186158000.0 ticks per second
TIME_SCALE == 46186158

\* the last of a set of record indices: the record that is written last
LastIndex(indices) == CHOOSE i \in indices : \A j \in indices : j <= i

\* lines 43-48
parse_model_names(models) ==
    [id \in {models[i].id : i \in 1..Len(models)} |->
        models[LastIndex({i \in 1..Len(models) : models[i].id = id})].name]

\* lines 51-62: a line whose model id names no model is skipped
parse_curve_node_bindings(nodes, names) ==
    LET resolvable == {i \in 1..Len(nodes) : nodes[i].model_id \in DOMAIN names}
    IN  [id \in {nodes[i].node_id : i \in resolvable} |->
            LET rec == nodes[LastIndex({i \in resolvable : nodes[i].node_id = id})]
            IN  [bone_name |-> names[rec.model_id], channel |-> rec.channel]]

\* lines 65-73
parse_curve_bindings(conns) ==
    [id \in {conns[i].curve_id : i \in 1..Len(conns)} |->
        LET rec == conns[LastIndex({i \in 1..Len(conns) : conns[i].curve_id = id})]
        IN  [node_id |-> rec.node_id, axis |-> rec.axis]]

\* lines 98-110: times = [t / TIME_SCALE for t in ...]
parse_curves(blocks) ==
    [id \in {blocks[i].curve_id : i \in 1..Len(blocks)} |->
        LET rec == blocks[LastIndex({i \in 1..Len(blocks) : blocks[i].curve_id = id})]
        IN  [times |-> List([k \in 1..Len(rec.key_time) |-> Rat(rec.key_time[k], TIME_SCALE)])]]

\* the keys of curve_bindings in the order items() yields them: by first insertion
ItemOrder(conns) ==
    LET first == {i \in 1..Len(conns) :
                     \A j \in 1..(i - 1) : conns[j].curve_id # conns[i].curve_id}
        idx == Ascending(first)
    IN  List([k \in 1..Len(idx) |-> conns[idx[k]].curve_id])

\* curve.times[-1] if curve.times else 0.0
LastKeyTime(curve) == IF curve.times # <<>> THEN Last(curve.times) ELSE Zero

EmptyChannels == [translation |-> <<>>, rotation |-> <<>>]

\* anim = bone_anims.setdefault(bone_name, {...}); anim[channel][axis] = curve
StoreInto(anims, bone_name, channel, axis, curve) ==
    LET anim == IF bone_name \in DOMAIN anims THEN anims[bone_name] ELSE EmptyChannels
        updated == [anim EXCEPT ![channel] = (axis :> curve) @@ anim[channel]]
    IN  (bone_name :> updated) @@ anims

\* ---- the texts of the model
MaxModels == 2
MaxConns == 2
MaxKeyTicks == 3

BoneNames == <<"mixamorig:Hips", "mixamorig:LeftFoot">>
Channels == {"translation", "rotation"}
Axes == {"x", "y"}

ModelTexts == {List([i \in 1..k |-> [id |-> i, name |-> BoneNames[((i - 1) % 2) + 1]]]) :
                  k \in (MaxModels - 1)..MaxModels}

NodeRecords(n, ch) == {[node_id |-> n, model_id |-> m, channel |-> ch] : m \in 1..MaxModels}

NodeTexts ==
    LET First == NodeRecords(1, "translation")
        Second == NodeRecords(2, "rotation")
    IN  {<<>>} \cup {<<a>> : a \in First \cup Second}
               \cup {<<a, b>> : a \in First, b \in First \cup Second}

ConnRecords == [curve_id : 1..2, node_id : 1..2, axis : Axes]

ConnTexts == UNION {[1..k -> ConnRecords] : k \in 0..MaxConns}

\* key times in raw ticks, in steps of half a millisecond; the last list is out of order
KeyTimeLists ==
    LET Half == TIME_SCALE \div 2
    IN  {<<>>, <<0, Half>>, <<0, MaxKeyTicks * Half>>, <<MaxKeyTicks * Half, 2 * Half>>}

BlockTexts ==
    LET One1 == {<<>>} \cup {<<[curve_id |-> 1, key_time |-> kt]>> : kt \in KeyTimeLists}
        One2 == {<<>>} \cup {<<[curve_id |-> 2, key_time |-> kt]>> : kt \in KeyTimeLists}
    IN  {a \o b : a \in One1, b \in One2}

\* the variables of a run of fit_fbx_to_fourier while build_bone_curves is modelled
RunIdle ==
    /\ pc = "idle"
    /\ skeleton_swift = NoSkeleton("omitted")
    /\ duration = One
    /\ fps = 10
    /\ sample_count = 0
    /\ t_samples = <<>>
    /\ phi = <<>>
    /\ phase_mode = ""
    /\ cycle_duration = Zero
    /\ skeleton = NoSkeletonLoaded
    /\ contacts_left = <<>>
    /\ contacts_right = <<>>
    /\ left_y = <<>>
    /\ right_y = <<>>
    /\ calls = <<>>
    /\ payload = [written |-> FALSE]

InitCurves ==
    /\ RunIdle
    /\ CallIdle
    /\ cpc = "parse"
    /\ text \in [models : ModelTexts, nodes : NodeTexts, conns : ConnTexts, blocks : BlockTexts]
    /\ model_id_to_name = <<>>
    /\ curve_node_bindings = <<>>
    /\ curve_bindings = <<>>
    /\ curves = <<>>
    /\ todo = <<>>
    /\ bone_anims = <<>>
    /\ max_time = Zero
    /\ returned = [done |-> FALSE]

\* lines 114-120
ParseTables ==
    /\ cpc = "parse"
    /\ model_id_to_name' = parse_model_names(text.models)
    /\ curve_node_bindings' = parse_curve_node_bindings(text.nodes, parse_model_names(text.models))
    /\ curve_bindings' = parse_curve_bindings(text.conns)
    /\ curves' = parse_curves(text.blocks)
    /\ todo' = ItemOrder(text.conns)
    /\ bone_anims' = <<>>
    /\ max_time' = Zero
    /\ cpc' = "loop"
    /\ UNCHANGED <<text, returned, run_vars, call_vars>>

\* a variant: a curve id without a block gets an empty curve, curves.get(curve_id, empty)
SkipNoCurve_DefaultCurve ==
    /\ cpc = "loop"
    /\ todo # <<>>
    /\ Head(todo) \notin DOMAIN curves
    /\ LET curve == [times |-> <<>>]
           binding == curve_bindings[Head(todo)]
       IN  IF binding.node_id \in DOMAIN curve_node_bindings
           THEN LET node == curve_node_bindings[binding.node_id]
                IN  /\ max_time' = RMax(max_time, LastKeyTime(curve))
                    /\ bone_anims' = StoreInto(bone_anims, node.bone_name, node.channel,
                                               binding.axis, curve)
           ELSE UNCHANGED <<bone_anims, max_time>>
    /\ todo' = Tail(todo)
    /\ UNCHANGED <<cpc, text, model_id_to_name, curve_node_bindings, curve_bindings, curves,
                   returned, run_vars, call_vars>>

\* lines 122-125: curves.get(curve_id) is None
SkipNoCurve ==
    /\ cpc = "loop"
    /\ todo # <<>>
    /\ Head(todo) \notin DOMAIN curves
    /\ todo' = Tail(todo)
    /\ UNCHANGED <<cpc, text, model_id_to_name, curve_node_bindings, curve_bindings, curves,
                   bone_anims, max_time, returned, run_vars, call_vars>>

\* a variant: max_time is updated before the curve node is looked up
SkipNoNode_CountsTime ==
    /\ cpc = "loop"
    /\ todo # <<>>
    /\ Head(todo) \in DOMAIN curves
    /\ curve_bindings[Head(todo)].node_id \notin DOMAIN curve_node_bindings
    /\ max_time' = RMax(max_time, LastKeyTime(curves[Head(todo)]))
    /\ todo' = Tail(todo)
    /\ UNCHANGED <<cpc, text, model_id_to_name, curve_node_bindings, curve_bindings, curves,
                   bone_anims, returned, run_vars, call_vars>>

\* lines 126-128: curve_node_bindings.get(node_id) is None
SkipNoNode ==
    /\ cpc = "loop"
    /\ todo # <<>>
    /\ Head(todo) \in DOMAIN curves
    /\ curve_bindings[Head(todo)].node_id \notin DOMAIN curve_node_bindings
    /\ todo' = Tail(todo)
    /\ UNCHANGED <<cpc, text, model_id_to_name, curve_node_bindings, curve_bindings, curves,
                   bone_anims, max_time, returned, run_vars, call_vars>>

\* lines 129-132
StoreCurve ==
    /\ cpc = "loop"
    /\ todo # <<>>
    /\ Head(todo) \in DOMAIN curves
    /\ curve_bindings[Head(todo)].node_id \in DOMAIN curve_node_bindings
    /\ LET curve == curves[Head(todo)]
           binding == curve_bindings[Head(todo)]
           node == curve_node_bindings[binding.node_id]
       IN  /\ max_time' = RMax(max_time, LastKeyTime(curve))
           /\ bone_anims' = StoreInto(bone_anims, node.bone_name, node.channel,
                                      binding.axis, curve)
    /\ todo' = Tail(todo)
    /\ UNCHANGED <<cpc, text, model_id_to_name, curve_node_bindings, curve_bindings, curves,
                   returned, run_vars, call_vars>>

\* line 134: return bone_anims, max(max_time, 0.001)
ReturnCurves ==
    /\ cpc = "loop"
    /\ todo = <<>>
    /\ returned' = [done |-> TRUE, bone_anims |-> bone_anims, duration |-> RMax(max_time, One)]
    /\ cpc' = "returned"
    /\ UNCHANGED <<text, model_id_to_name, curve_node_bindings, curve_bindings, curves,
                   todo, bone_anims, max_time, run_vars, call_vars>>

NextCurves ==
    \/ ParseTables
    \/ SkipNoCurve
    \/ SkipNoNode
    \/ StoreCurve
    \/ ReturnCurves

SpecCurves == InitCurves /\ [][NextCurves]_vars

-----------------------------------------------------------------------------
\* Properties of a run of fit_fbx_to_fourier

SkeletonLoaded == skeleton # NoSkeletonLoaded

Selected(result, label) ==
    /\ phi = result.phase
    /\ cycle_duration = result.period
    /\ phase_mode = label

\* what each strategy yields on the signals of the current run
LeftContactResult == compute_phase_from_contacts(t_samples, contacts_left)
RightContactResult == compute_phase_from_contacts(t_samples, contacts_right)
LeftMinResult == compute_phase_from_events(t_samples, detect_minima_events(t_samples, left_y))
RightMinResult == compute_phase_from_events(t_samples, detect_minima_events(t_samples, right_y))
LeftAutoResult == compute_phase_from_autocorr(t_samples, left_y)
RightAutoResult == compute_phase_from_autocorr(t_samples, right_y)

\* a minima result, or the autocorrelation of the same foot that refined it
SelectedOrRefined(result, label, auto, auto_label) ==
    \/ Selected(result, label)
    \/ /\ ShortCycle(result.period, duration)
       /\ auto.phase # <<>>
       /\ Selected(auto, auto_label)

FixedOrder ==
    << <<"compute_phase_from_contacts", "left">>,
       <<"compute_phase_from_contacts", "right">>,
       <<"compute_phase_from_events", "left">>,
       <<"compute_phase_from_events", "right">>,
       <<"compute_phase_from_autocorr", "left">> >>

StrategyIndices == {i \in 1..Len(calls) : calls[i].role = "strategy"}

StrategyCalls ==
    LET idx == Ascending(StrategyIndices)
    IN  List([k \in 1..Len(idx) |-> calls[idx[k]]])

\* C1: when a skeleton is loaded the strategies are tried in the fixed order left
\* contacts, right contacts, left minima, right minima, autocorrelation of the left
\* height, normalized time; the first one that yields a non-empty phase is the one
\* selected (up to the refinement of a minima result) and no later one is tried.
C1_FirstSuccessWins ==
    /\ Len(StrategyCalls) <= Len(FixedOrder)
    /\ \A k \in 1..Len(StrategyCalls) :
          /\ <<StrategyCalls[k].fn, StrategyCalls[k].foot>> = FixedOrder[k]
          /\ k < Len(StrategyCalls) => StrategyCalls[k].result.phase = <<>>
    /\ pc = "stride" =>
          IF LeftContactResult.phase # <<>>
          THEN Selected(LeftContactResult, "left_foot_contact")
          ELSE IF RightContactResult.phase # <<>>
          THEN Selected(RightContactResult, "right_foot_contact")
          ELSE IF LeftMinResult.phase # <<>>
          THEN SelectedOrRefined(LeftMinResult, "left_foot_min",
                                 LeftAutoResult, "left_foot_auto")
          ELSE IF RightMinResult.phase # <<>>
          THEN SelectedOrRefined(RightMinResult, "right_foot_min",
                                 RightAutoResult, "right_foot_auto")
          ELSE IF LeftAutoResult.phase # <<>>
          THEN Selected(LeftAutoResult, "left_foot_auto")
          ELSE Selected([phase |-> NormalizedPhase(sample_count), period |-> duration],
                        "normalized_time")

\* the left contacts were selected although the right contacts yield a phase as well
C1_Witness ==
    /\ pc = "stride"
    /\ phase_mode = "left_foot_contact"
    /\ RightContactResult.phase # <<>>
    /\ RightContactResult # LeftContactResult

InUnitInterval(x) == RLe(Zero, x) /\ RLt(x, One)

AllInUnitInterval(s) == \A i \in 1..Len(s) : InUnitInterval(s[i])

\* C2: every value of a phase array lies in [0, 1): the arrays the three strategy
\* functions return, the normalized-time array and the stride-corrected array,
\* sample times before the first detected event included.
C2_PhaseInUnitInterval ==
    /\ AllInUnitInterval(phi)
    /\ \A k \in 1..Len(calls) : AllInUnitInterval(calls[k].result.phase)

\* an event-based phase in which the samples before the first event wrapped around
C2_Witness ==
    /\ pc = "stride"
    /\ phase_mode = "left_foot_contact"
    /\ LET events == ContactEvents(t_samples, contacts_left)
       IN  /\ RLt(t_samples[1], events[1])
           /\ RLt(Zero, phi[1])
           /\ RLt(phi[2], phi[1]) \/ RLt(phi[3], phi[2]) \/ RLt(phi[4], phi[3])

\* C3: a strategy function that returns a non-empty phase array returns a period
\* strictly greater than zero.
C3_PeriodPositive ==
    \A k \in 1..Len(calls) :
        calls[k].result.phase # <<>> => RLt(Zero, calls[k].result.period)

\* a minima result and its autocorrelation refinement, both non-empty
C3_Witness ==
    /\ Len(calls) = 4
    /\ calls[3].fn = "compute_phase_from_events"
    /\ calls[3].result.phase # <<>>
    /\ calls[4].fn = "compute_phase_from_autocorr"
    /\ calls[4].result.phase # <<>>

\* 1.8 * cycle <= d <= 2.2 * cycle
InStrideInterval(d, cycle) ==
    /\ RLe(RMul(<<9, 5>>, cycle), d)
    /\ RLe(d, RMul(<<11, 5>>, cycle))

\* C4: once a strategy is selected, if duration / cycle_duration lies in [1.8, 2.2]
\* the step that ends the phase selection sets cycle_duration to duration, appends
\* "_stride" to the mode and makes the phase t / duration; otherwise it leaves the
\* phase, the mode and the cycle duration as they are.
C4_StrideCorrection ==
    [][(pc' = "fit" /\ pc # "fit") =>
         IF InStrideInterval(duration, cycle_duration)
         THEN /\ cycle_duration' = duration
              /\ phase_mode' = phase_mode \o "_stride"
              /\ phi' = List([i \in 1..sample_count |-> RDiv(t_samples[i], duration)])
         ELSE UNCHANGED <<phi, phase_mode, cycle_duration>>]_vars

\* a run whose contact cycle was half the clip
C4_Witness ==
    /\ pc = "fit"
    /\ phase_mode = "left_foot_contact_stride"
    /\ cycle_duration = duration
    /\ calls[1].result.period # duration

\* C5: when the skeleton path is omitted or names a file that does not exist, the
\* run is not an error: the payload is written with mode "normalized_time", the
\* phase of sample i is i / sample_count, the cycle duration is the clip duration
\* and there are no contact fits.
C5_NoSkeletonFallback ==
    skeleton_swift.path # "file" =>
        /\ pc # "aborted"
        /\ calls = <<>>
        /\ pc = "done" =>
              /\ payload.written
              /\ payload.phase.mode = "normalized_time"
              /\ payload.phase.cycle_duration = duration
              /\ ~payload.has_contacts
              /\ Len(phi) = sample_count
              /\ \A i \in 1..sample_count : phi[i] = Rat(i - 1, sample_count)

C5_Witness ==
    /\ pc = "done"
    /\ skeleton_swift.path = "missing"
    /\ payload.written
    /\ sample_count > 2

\* C6: a skeleton that lacks a bone named "mixamorig:LeftFoot" or
\* "mixamorig:RightFoot" gives empty contact signals and the run completes
\* without contacts: it does not abort.
C6_FeetMissingCompletes ==
    (SkeletonLoaded /\ FeetMissing(skeleton)) => pc # "aborted"

LengthsDiffer(res) ==
    \/ Len(res.names) # Len(res.parent)
    \/ Len(res.names) # res.translations
    \/ Len(res.names) # res.pre_rotations

\* C7: a skeleton file in which names, parent, bind translations and pre-rotation
\* matrices are not all of the same length aborts the run, and the payload of an
\* aborted run is never written; the payload is written only by the last step.
C7_LengthMismatchAborts ==
    /\ (skeleton_swift.path = "file" /\ skeleton_swift.found /\ LengthsDiffer(skeleton_swift))
          => (pc \in {"start", "skeleton", "aborted"} /\ ~payload.written)
    /\ pc = "aborted" => ~payload.written
    /\ payload.written => pc = "done"

C7_Witness ==
    /\ pc = "aborted"
    /\ skeleton_swift.path = "file"
    /\ skeleton_swift.found
    /\ Len(skeleton_swift.names) = Len(skeleton_swift.parent)
    /\ Len(skeleton_swift.names) # skeleton_swift.translations

\* C8: a skeleton whose parent order is not topological (some bone whose parent
\* index is not smaller than its own) does not load.
C8_TopologicalOrLoadFails ==
    SkeletonLoaded => \A i \in 1..Len(skeleton.parent) : skeleton.parent[i] < i - 1

-----------------------------------------------------------------------------
\* Properties of a call of build_bone_curves, stated on the text it was given

Declared(m) == \E i \in 1..Len(text.models) : text.models[i].id = m

NameOf(m) ==
    LET i == CHOOSE k \in 1..Len(text.models) :
                /\ text.models[k].id = m
                /\ \A j \in (k + 1)..Len(text.models) : text.models[j].id # m
    IN  text.models[i].name

\* the lines for curve node n whose model is declared
NodeLines(n) ==
    {i \in 1..Len(text.nodes) :
        text.nodes[i].node_id = n /\ Declared(text.nodes[i].model_id)}

NodeOf(n) == text.nodes[CHOOSE i \in NodeLines(n) : \A j \in NodeLines(n) : j <= i]

BoundCurves == {text.conns[i].curve_id : i \in 1..Len(text.conns)}

BindingOf(c) ==
    LET lines == {i \in 1..Len(text.conns) : text.conns[i].curve_id = c}
    IN  text.conns[CHOOSE i \in lines : \A j \in lines : j <= i]

BlockLines(c) == {i \in 1..Len(text.blocks) : text.blocks[i].curve_id = c}

BlockOf(c) == text.blocks[CHOOSE i \in BlockLines(c) : \A j \in BlockLines(c) : j <= i]

\* the binding of raw curve c resolves through all three layers
Resolves(c) ==
    /\ BlockLines(c) # {}
    /\ NodeLines(BindingOf(c).node_id) # {}

TripleOf(c) ==
    LET node == NodeOf(BindingOf(c).node_id)
    IN  <<NameOf(node.model_id), node.channel, BindingOf(c).axis>>

HasCurve(anims, bone, channel, axis) ==
    /\ bone \in DOMAIN anims
    /\ axis \in DOMAIN anims[bone][channel]

TextBones == {BoneNames[i] : i \in 1..Len(BoneNames)}

\* C9: build_bone_curves drops a binding whose chain (raw curve id -> curve block,
\* curve node id -> (bone, channel), model id -> bone name) does not resolve and goes
\* on; the animation set it returns holds a curve for (bone, channel, axis) exactly
\* when some binding for that triple resolves through all three layers.
C9_UnresolvedDropped ==
    /\ (cpc = "loop" /\ todo # <<>>) => ENABLED (SkipNoCurve \/ SkipNoNode \/ StoreCurve)
    /\ cpc = "returned" =>
          /\ DOMAIN returned.bone_anims \subseteq TextBones
          /\ \A bone \in TextBones, channel \in Channels, axis \in Axes :
                HasCurve(returned.bone_anims, bone, channel, axis)
                    <=> \E c \in BoundCurves :
                            Resolves(c) /\ TripleOf(c) = <<bone, channel, axis>>

\* a call that kept one binding and dropped another
C9_Witness ==
    /\ cpc = "returned"
    /\ returned.bone_anims # <<>>
    /\ \E c \in BoundCurves : ~Resolves(c)
    /\ \E c \in BoundCurves : Resolves(c)

LastKeyOf(c) ==
    LET keys == BlockOf(c).key_time
    IN  IF keys = <<>> THEN Zero ELSE Rat(keys[Len(keys)], TIME_SCALE)

ResolvedLastKeys == {LastKeyOf(c) : c \in {b \in BoundCurves : Resolves(b)}}

\* C10: the duration build_bone_curves returns is the largest last key time of the
\* resolved curves, and 0.001 s if that is smaller; curves that do not resolve do not
\* count; with no resolvable curve the animation set is empty and the duration 0.001 s.
C10_DurationOfResolved ==
    cpc = "returned" =>
        /\ returned.duration \in ResolvedLastKeys \cup {One}
        /\ \A x \in ResolvedLastKeys \cup {One} : RLe(x, returned.duration)
        /\ ResolvedLastKeys = {} => (returned.bone_anims = <<>> /\ returned.duration = One)

\* a curve that does not resolve ends later than the duration returned
C10_Witness ==
    /\ cpc = "returned"
    /\ ResolvedLastKeys # {}
    /\ \E c \in BoundCurves :
          /\ ~Resolves(c)
          /\ BlockLines(c) # {}
          /\ RLt(returned.duration, LastKeyOf(c))

-----------------------------------------------------------------------------
\* Properties of the sample schedule, lines 533-535

Sampled == pc \notin {"start", "idle"}

\* duration * fps, the duration taken in seconds
FrameCount == RDiv(RMul(duration, R(fps)), R(1000))

\* t[i] = (i / sample_count) * duration, strictly increasing, all in [0, duration)
UniformSchedule ==
    /\ Len(t_samples) = sample_count
    /\ \A i \in 1..sample_count : t_samples[i] = RMul(Rat(i - 1, sample_count), duration)
    /\ \A i \in 1..(sample_count - 1) : RLt(t_samples[i], t_samples[i + 1])
    /\ \A i \in 1..sample_count : RLe(Zero, t_samples[i]) /\ RLt(t_samples[i], duration)

\* C11 (as amended): the sample schedule has exactly sample_count = max(2, n) sample
\* times, n being duration * fps with its fraction dropped, not rounded; the times are
\* t[i] = (i / sample_count) * duration, strictly increasing and all in [0, duration).
C11_SampleSchedule ==
    Sampled =>
        /\ sample_count >= 2
        /\ IF RLt(FrameCount, R(2)) THEN sample_count = 2
           ELSE RLe(R(sample_count), FrameCount) /\ RLt(FrameCount, R(sample_count + 1))
        /\ UniformSchedule

\* C11 as stated: sample_count = max(2, round(duration * fps)), with the same times.
C11_RoundedSampleCount ==
    Sampled =>
        /\ sample_count = (IF RRound(FrameCount) > 2 THEN RRound(FrameCount) ELSE 2)
        /\ UniformSchedule

\* a clip of 2.75 s at 10 fps: 27.5 frames give 27 samples
C11_Witness ==
    /\ Sampled
    /\ FrameCount = <<55, 2>>
    /\ sample_count = 27
    /\ Len(t_samples) = 27

-----------------------------------------------------------------------------
(* AnimationCurve.sample, lines 19-40.  A curve is a record                 *)
(* [times, values, default_value]; times in ms.                             *)

\* a frame shared by the single-call specifications
CallFrame == UNCHANGED <<run_vars, curve_vars, called, call_args>>

\* lines 25-32: the while loop, lo and hi counted from 0
RECURSIVE Bisect(_, _, _, _)
Bisect(times, t, lo, hi) ==
    IF hi - lo > 1
    THEN LET mid == (lo + hi) \div 2
         IN  IF RLe(times[mid + 1], t) THEN Bisect(times, t, mid, hi)
             ELSE Bisect(times, t, lo, mid)
    ELSE <<lo, hi>>

\* lines 25-40: the value between the keys the loop ends on
Interpolate(curve, t) ==
    LET ends == Bisect(curve.times, t, 0, Len(curve.times) - 1)
        t0 == curve.times[ends[1] + 1]
        t1 == curve.times[ends[2] + 1]
        v0 == curve.values[ends[1] + 1]
        v1 == curve.values[ends[2] + 1]
        \* max(t1 - t0, 1e-6)
        span == RMax(RSub(t1, t0), <<1, 1000>>)
        a == RDiv(RSub(t, t0), span)
    IN  RAdd(v0, RMul(RSub(v1, v0), a))

\* a variant: the test "t >= self.times[-1]" is left out
sample_NoUpperClamp(curve, t) ==
    IF curve.times = <<>> \/ Len(curve.times) # Len(curve.values) THEN curve.default_value
    ELSE IF RLe(t, curve.times[1]) THEN curve.values[1]
    ELSE Interpolate(curve, t)

sample(curve, t) ==
    IF curve.times = <<>> \/ Len(curve.times) # Len(curve.values) THEN curve.default_value
    ELSE IF RLe(t, curve.times[1]) THEN curve.values[1]
    ELSE IF RLe(Last(curve.times), t) THEN Last(curve.values)
    ELSE Interpolate(curve, t)

\* ---- the curves and times of the model
MaxKeys == 3

SeqsUpTo(S, n) == UNION {[1..k -> S] : k \in 0..n}

\* key times in ms: whole seconds, and one key half a microsecond after 0
KeyTimes == {R(0), <<1, 2000>>, R(1000), R(2000)}
KeyValues == {R(0), R(10)}
SampleAt == {R(-500), R(0), <<1, 4000>>, R(500), R(1000), R(1500), R(2000), R(2500)}

\* what the parser can build: any key times, and values of any length
SampleCurves ==
    [times : SeqsUpTo(KeyTimes, MaxKeys), values : SeqsUpTo(KeyValues, MaxKeys),
     default_value : {R(7)}]

InitSample ==
    /\ RunIdle
    /\ CurvesIdle
    /\ fpc = "call"
    /\ called = "sample"
    /\ call_args \in [curve : SampleCurves, t : SampleAt]
    /\ call_result = <<>>

CallSample ==
    /\ fpc = "call"
    /\ called = "sample"
    /\ call_result' = sample(call_args.curve, call_args.t)
    /\ fpc' = "done"
    /\ CallFrame

NextSample == CallSample

SpecSample == InitSample /\ [][NextSample]_vars

\* ---- properties of AnimationCurve.sample
StrictlyIncreasing(times) == \A i \in 1..(Len(times) - 1) : RLt(times[i], times[i + 1])

Between(x, a, b) == (RLe(a, x) /\ RLe(x, b)) \/ (RLe(b, x) /\ RLe(x, a))

Sampled12 == fpc = "done" /\ called = "sample"

\* C12: a curve with strictly increasing times and as many values as times samples to
\* values[0] at every t <= times[0], to values[-1] at every t >= times[-1], and
\* between two adjacent keys to a value between the values of the two keys (the linear
\* interpolation when the keys are at least 1e-6 s apart); a curve with no keys or with
\* len(times) # len(values) samples to its default value at every t.
C12_SampleInterpolates ==
    Sampled12 =>
        LET curve == call_args.curve
            t == call_args.t
            n == Len(curve.times)
        IN  IF n = 0 \/ n # Len(curve.values) THEN call_result = curve.default_value
            ELSE StrictlyIncreasing(curve.times) =>
                   /\ RLe(t, curve.times[1]) => call_result = curve.values[1]
                   /\ RLe(curve.times[n], t) => call_result = curve.values[n]
                   /\ \A j \in 1..(n - 1) :
                         (RLe(curve.times[j], t) /\ RLe(t, curve.times[j + 1])) =>
                            /\ Between(call_result, curve.values[j], curve.values[j + 1])
                            /\ RLe(<<1, 1000>>, RSub(curve.times[j + 1], curve.times[j])) =>
                                  call_result =
                                     RAdd(curve.values[j],
                                          RDiv(RMul(RSub(curve.values[j + 1], curve.values[j]),
                                                    RSub(t, curve.times[j])),
                                               RSub(curve.times[j + 1], curve.times[j])))

\* times [0, 1, 2] s and values [0, 10, 0] sampled at 1.5 s give 5
C12_Witness ==
    /\ Sampled12
    /\ call_args.curve.times = <<R(0), R(1000), R(2000)>>
    /\ call_args.curve.values = <<R(0), R(10), R(0)>>
    /\ call_args.t = R(1500)
    /\ call_result = R(5)

-----------------------------------------------------------------------------
(* fit_fourier, lines 497-515.                                              *)
(*                                                                          *)
(* math.cos and math.sin are taken at whole quarter turns, where their      *)
(* values are 1, 0, -1, 0 and 0, 1, 0, -1: the phases of the model are      *)
(* multiples of 1/4, so that every angle 2 * pi * k * p is a quarter turn.  *)

\* the quarter (0..3) of an angle given in turns
QuarterOf(turns) == RFloor(RMul(Frac(turns), R(4)))

\* math.cos(2 * pi * turns), math.sin(2 * pi * turns)
CosTurns(turns) == R(<<1, 0, -1, 0>>[QuarterOf(turns) + 1])
SinTurns(turns) == R(<<0, 1, 0, -1>>[QuarterOf(turns) + 1])

MinInt(a, b) == IF a < b THEN a ELSE b

\* cos_sum and sin_sum of harmonic k, lines 506-512; zip stops at the shorter list
CosSum(phases, values, k) ==
    RSum(List([i \in 1..MinInt(Len(phases), Len(values)) |->
                  RMul(values[i], CosTurns(RMul(R(k), phases[i])))]))

SinSum(phases, values, k) ==
    RSum(List([i \in 1..MinInt(Len(phases), Len(values)) |->
                  RMul(values[i], SinTurns(RMul(R(k), phases[i])))]))

\* the list [a0, a1, b1, ..., a_order, b_order] built by lines 504-514
Coefficients(phases, values, order, a0) ==
    LET two_over_count == RDiv(R(2), R(Len(phases)))
    IN  List([j \in 1..(1 + 2 * order) |->
            IF j = 1 THEN a0
            ELSE IF j % 2 = 0 THEN RMul(CosSum(phases, values, j \div 2), two_over_count)
            ELSE RMul(SinSum(phases, values, j \div 2), two_over_count)])

\* a variant: a0 = sum(values) * two_over_count
fit_fourier_DoubleMean(phases, values, order) ==
    IF Len(phases) = 0 THEN List([j \in 1..(1 + 2 * order) |-> Zero])
    ELSE Coefficients(phases, values, order, RMul(RSum(values), RDiv(R(2), R(Len(phases)))))

\* a variant: the harmonics run over range(1, order)
fit_fourier_ShortRange(phases, values, order) ==
    IF Len(phases) = 0 THEN List([j \in 1..(1 + 2 * order) |-> Zero])
    ELSE Coefficients(phases, values, IF order > 0 THEN order - 1 ELSE 0,
                      RMul(RSum(values), RDiv(One, R(Len(phases)))))

fit_fourier(phases, values, order) ==
    IF Len(phases) = 0 THEN List([j \in 1..(1 + 2 * order) |-> Zero])
    ELSE Coefficients(phases, values, order, RMul(RSum(values), RDiv(One, R(Len(phases)))))

\* ---- the phases, values and orders of the model
MaxFitLen == 4
MaxOrder == 2

QuarterPhases == {R(0), <<1, 4>>, <<1, 2>>, <<3, 4>>}
FitValues == {R(-2), R(0), R(3)}

\* a phase array and a value array of the same length, as every caller passes them
FitInputs ==
    UNION {[phi : [1..n -> QuarterPhases], values : [1..n -> FitValues], order : 0..MaxOrder] :
              n \in 0..MaxFitLen}

InitFourier ==
    /\ RunIdle
    /\ CurvesIdle
    /\ fpc = "call"
    /\ called = "fit_fourier"
    /\ call_args \in FitInputs
    /\ call_result = <<>>

CallFitFourier ==
    /\ fpc = "call"
    /\ called = "fit_fourier"
    /\ call_result' = fit_fourier(call_args.phi, call_args.values, call_args.order)
    /\ fpc' = "done"
    /\ CallFrame

NextFourier == CallFitFourier

SpecFourier == InitFourier /\ [][NextFourier]_vars

\* ---- properties of fit_fourier
Fitted == fpc = "done" /\ called = "fit_fourier"

\* values all equal to c, on a non-empty phase array
ConstantInput(c) ==
    /\ Len(call_args.phi) > 0
    /\ \A i \in 1..Len(call_args.values) : call_args.values[i] = c

\* the phase array i / n, i = 0..n-1
UniformPhase == \A i \in 1..Len(call_args.phi) : call_args.phi[i] = Rat(i - 1, Len(call_args.phi))

HigherAllZero == \A j \in 2..Len(call_result) : call_result[j] = Zero

\* C13 (as amended): fit_fourier applied to values all equal to c on a non-empty phase
\* array returns a0 = c; the higher coefficients a_m, b_m are all 0 when the phase
\* array is the uniform one, i / n, and the order is below n.
C13_ConstantFit ==
    Fitted =>
        \A c \in FitValues :
            ConstantInput(c) =>
                /\ call_result[1] = c
                /\ (UniformPhase /\ call_args.order < Len(call_args.phi)) => HigherAllZero

\* C13 as stated: on any non-empty phase array, uniformly spaced or not, and for any
\* order, values all equal to c give a0 = c and every higher coefficient 0.
C13_ConstantFitAnyPhase ==
    Fitted =>
        \A c \in FitValues :
            ConstantInput(c) => (call_result[1] = c /\ HigherAllZero)

\* the constant 3 on the phases 0, 1/4, 1/2, 3/4 at order 2
C13_Witness ==
    /\ Fitted
    /\ ConstantInput(R(3))
    /\ Len(call_args.phi) = 4
    /\ UniformPhase
    /\ call_args.order = 2
    /\ call_result = <<R(3), Zero, Zero, Zero, Zero>>

\* C14: fit_fourier returns exactly 1 + 2k coefficients for every order k >= 0 and every
\* input, the empty one included, in the layout [a0, a1, b1, ..., ak, bk] with a0 the
\* mean of the values, a_m = (2/N) sum v cos(2 pi m phi) and b_m the same with sin; at
\* order 0 the result is the one-element array holding the mean.
C14_CoefficientLayout ==
    Fitted =>
        LET phi_in == call_args.phi
            values == call_args.values
            n == Len(phi_in)
        IN  /\ Len(call_result) = 1 + 2 * call_args.order
            /\ n = 0 => \A j \in 1..Len(call_result) : call_result[j] = Zero
            /\ n > 0 =>
                  /\ call_result[1] = RDiv(RSum(values), R(Len(values)))
                  /\ \A m \in 1..call_args.order :
                        /\ call_result[2 * m] =
                              RMul(<<2, n>>, RSum(List([i \in 1..n |->
                                  RMul(values[i], CosTurns(RMul(R(m), phi_in[i])))])))
                        /\ call_result[2 * m + 1] =
                              RMul(<<2, n>>, RSum(List([i \in 1..n |->
                                  RMul(values[i], SinTurns(RMul(R(m), phi_in[i])))])))

\* an order-2 fit of three samples with non-zero harmonics
C14_Witness ==
    /\ Fitted
    /\ call_args.order = 2
    /\ Len(call_args.phi) = 3
    /\ Len(call_result) = 5
    /\ call_result[2] # Zero
    /\ call_result[3] # Zero
    /\ call_result[4] # Zero
    /\ call_result[2] # call_result[3]

\* ---------------------------------------------------------------------------------
\* bones_out: the per-axis fit of lines 601-617
\* ---------------------------------------------------------------------------------

\* Python's None, and JSON's null in the payload. An Optional value is the empty
\* sequence or the one-element sequence holding the value; a coefficient array has at
\* least one element.
None == <<>>

\* line 608
AxisNames == {"x", "y", "z"}

\* axis_curves.get(axis), line 609
Get(axis_curves, axis) ==
    IF axis \in DOMAIN axis_curves THEN <<axis_curves[axis]>> ELSE None

\* lines 518-521
sample_curve(curve, ts, default_value) ==
    IF curve = None
    THEN List([i \in 1..Len(ts) |-> default_value])
    ELSE List([i \in 1..Len(ts) |-> sample(curve[1], ts[i])])

channel_out_FitsDefault(axis_curves, ts, phases, order) ==
    [axis \in AxisNames |->
        fit_fourier(phases, sample_curve(Get(axis_curves, axis), ts, Zero), order)]

\* lines 607-615
channel_out(axis_curves, ts, phases, order) ==
    [axis \in AxisNames |->
        LET curve == Get(axis_curves, axis)
        IN  IF curve = None
            THEN None
            ELSE fit_fourier(phases, sample_curve(curve, ts, Zero), order)]

\* lines 601-617; the keys are visited in sorted order and the result is keyed by name
bones_out(anims, ts, phases, order) ==
    [bone_name \in DOMAIN anims |->
        [channel \in Channels |->
            channel_out(anims[bone_name][channel], ts, phases, order)]]

\* ---- the inputs of the model
BoneCurves ==
    {[times |-> <<R(0)>>, values |-> <<R(3)>>, default_value |-> Zero],
     [times |-> <<R(0), R(1000)>>, values |-> <<R(0), R(10)>>, default_value |-> Zero]}

\* a channel's dict: any subset of the axes, each with a curve
AxisMaps == UNION {[S -> BoneCurves] : S \in SUBSET AxisNames}

RotationMaps == {<<>>, [axis \in {"z"} |-> [times |-> <<R(0)>>, values |-> <<R(3)>>,
                                             default_value |-> Zero]]}

\* build_bone_curves creates a bone's entry when it stores a curve in it, so an entry
\* holds at least one curve
AnimInputs ==
    {anim \in [translation : AxisMaps, rotation : RotationMaps] : anim # EmptyChannels}

FootAnim ==
    [translation |-> <<>>,
     rotation |-> [axis \in {"x"} |-> [times |-> <<R(0), R(1000)>>,
                                       values |-> <<R(0), R(10)>>, default_value |-> Zero]]]

BoneAnimInputs ==
    {(BoneNames[1] :> anim) : anim \in AnimInputs}
        \cup {(BoneNames[1] :> anim) @@ (BoneNames[2] :> FootAnim) : anim \in AnimInputs}

\* phase arrays of the run: the normalized one and ones a strategy can leave
PhaseArrays ==
    {NormalizedPhase(2), NormalizedPhase(4), <<R(0), <<1, 4>>>>,
     <<R(0), <<1, 2>>, R(0), <<1, 2>>>>}

BonesInputs ==
    {[bone_anims |-> anims, t_samples |-> SampleTimes(R(1000), Len(phases)),
      phi |-> phases, order |-> k] :
        anims \in BoneAnimInputs, phases \in PhaseArrays, k \in 0..MaxOrder}

InitBones ==
    /\ RunIdle
    /\ CurvesIdle
    /\ fpc = "call"
    /\ called = "bones_out"
    /\ call_args \in BonesInputs
    /\ call_result = <<>>

FitBones ==
    /\ fpc = "call"
    /\ called = "bones_out"
    /\ call_result' = bones_out(call_args.bone_anims, call_args.t_samples, call_args.phi,
                                call_args.order)
    /\ fpc' = "done"
    /\ CallFrame

NextBones == FitBones

SpecBones == InitBones /\ [][NextBones]_vars

\* ---------------------------------------------------------------------------------
\* C15
\* ---------------------------------------------------------------------------------

BonesFitted == fpc = "done" /\ called = "bones_out"

Authored(bone_name, channel, axis) ==
    axis \in DOMAIN call_args.bone_anims[bone_name][channel]

\* a coefficient array of the call's order whose a0 is the mean of the samples of the
\* authored curve
FitOfCurve(coeffs, curve) ==
    LET values == List([i \in 1..Len(call_args.t_samples) |->
                          sample(curve, call_args.t_samples[i])])
    IN  /\ Len(coeffs) = 1 + 2 * call_args.order
        /\ coeffs[1] = RDiv(RSum(values), R(Len(values)))

\* a coefficient array of the call's order holding the default 0.0 and no harmonics
FitOfDefault(coeffs) ==
    /\ Len(coeffs) = 1 + 2 * call_args.order
    /\ \A j \in 1..Len(coeffs) : coeffs[j] = Zero

\* C15 (as amended): the output holds exactly the bones of bone_anims; for each of them,
\* every (channel, axis) with no authored curve is null, no coefficient array being
\* fitted for it, and every (channel, axis) with an authored curve is a coefficient
\* array of length 1 + 2 * order whose a0 is the mean of the curve's samples.
C15_UnauthoredAxesNull ==
    BonesFitted =>
        /\ DOMAIN call_result = DOMAIN call_args.bone_anims
        /\ \A bone_name \in DOMAIN call_result : \A channel \in Channels :
              \A axis \in AxisNames :
                  LET out == call_result[bone_name][channel][axis]
                  IN  IF Authored(bone_name, channel, axis)
                      THEN FitOfCurve(out, call_args.bone_anims[bone_name][channel][axis])
                      ELSE out = None

\* C15 as stated: for every bone of the output, each (channel, axis) with no authored
\* curve is fit from its constant default, so its output is a coefficient array with
\* a0 = default and all higher coefficients 0.
C15_UnauthoredAxesFitDefault ==
    BonesFitted =>
        \A bone_name \in DOMAIN call_result : \A channel \in Channels :
            \A axis \in AxisNames :
                ~Authored(bone_name, channel, axis) =>
                    FitOfDefault(call_result[bone_name][channel][axis])

\* two bones at order 1: the hips with translation y authored and x not, the foot with
\* no translation curve at all
C15_Witness ==
    /\ BonesFitted
    /\ call_args.order = 1
    /\ DOMAIN call_result = {BoneNames[1], BoneNames[2]}
    /\ ~Authored(BoneNames[1], "translation", "x")
    /\ Authored(BoneNames[1], "translation", "y")
    /\ call_result[BoneNames[1]]["translation"]["x"] = None
    /\ Len(call_result[BoneNames[1]]["translation"]["y"]) = 3
    /\ call_result[BoneNames[2]]["translation"] = [axis \in AxisNames |-> None]

\* ---------------------------------------------------------------------------------
\* compute_weights as a function of the heights of one foot
\* ---------------------------------------------------------------------------------

MaxWeightSamples == 60
WeightLengths == {2, MaxWeightSamples \div 3, MaxWeightSamples}
DipStarts == {1, MaxWeightSamples \div 2}
DipDepths == {5, 50}

\* ys with the two samples from p on lowered to depth below the ground
Dip(ys, p, depth) ==
    List([i \in 1..Len(ys) |-> IF i \in {p, p + 1} THEN R(0 - depth) ELSE ys[i]])

\* the height signals of the run, and the same with a dip below the ground
WeightInputs ==
    UNION {{List(ys) : ys \in Signals(n)}
              \cup {Dip(ys, p, depth) : ys \in Signals(n), p \in DipStarts, depth \in DipDepths} :
           n \in WeightLengths}

InitWeights ==
    /\ RunIdle
    /\ CurvesIdle
    /\ fpc = "call"
    /\ called = "compute_weights"
    /\ call_args \in [ys : WeightInputs]
    /\ call_result = <<>>

CallComputeWeights ==
    /\ fpc = "call"
    /\ called = "compute_weights"
    /\ call_result' = compute_weights(call_args.ys)
    /\ fpc' = "done"
    /\ CallFrame

NextWeights == CallComputeWeights

SpecWeights == InitWeights /\ [][NextWeights]_vars

\* ---------------------------------------------------------------------------------
\* C16
\* ---------------------------------------------------------------------------------

Weighted == fpc = "done" /\ called = "compute_weights"

\* sorted_y[max(0, int(len(sorted_y) * 0.05) - 1)] of the call's heights
PercentileFloor ==
    LET n == Len(call_args.ys)
    IN  SortedAt(call_args.ys, IF (n \div 20) - 1 > 0 THEN (n \div 20) - 1 ELSE 0)

BelowFloor(i) == RLt(call_args.ys[i], PercentileFloor)

\* C16: compute_weights returns one smoothed weight per sample, each in [0, 1], the
\* samples whose height is below the 5th-percentile floor y_min included.
C16_WeightsInUnitRange ==
    Weighted =>
        /\ Len(call_result) = Len(call_args.ys)
        /\ \A i \in 1..Len(call_result) :
              RLe(Zero, call_result[i]) /\ RLe(call_result[i], One)

\* 60 samples, one of them below the floor and at rest, its weight positive, and some
\* weight strictly inside the interval
C16_Witness ==
    /\ Weighted
    /\ Len(call_args.ys) = MaxWeightSamples
    /\ \E i \in 2..Len(call_args.ys) :
          /\ BelowFloor(i)
          /\ call_args.ys[i] = call_args.ys[i - 1]
          /\ RLt(Zero, call_result[i])
    /\ \E i \in 1..Len(call_result) : RLt(Zero, call_result[i]) /\ RLt(call_result[i], One)
    /\ \E i \in 1..Len(call_result) : call_result[i] = One

\* ---------------------------------------------------------------------------------
\* C17
\* ---------------------------------------------------------------------------------

EndedNormalized == pc = "done" /\ SkeletonLoaded /\ payload.phase.mode = "normalized_time"

\* C17: with the skeleton loaded, a run ends in normalized time only if every prior
\* strategy returned no phase: the contacts of the left and of the right foot, the
\* minima of the left and of the right foot, and the autocorrelation of each foot's
\* height signal.
C17_NormalizedOnlyIfAllFail ==
    EndedNormalized =>
        /\ LeftContactResult.phase = <<>>
        /\ RightContactResult.phase = <<>>
        /\ LeftMinResult.phase = <<>>
        /\ RightMinResult.phase = <<>>
        /\ LeftAutoResult.phase = <<>>
        /\ RightAutoResult.phase = <<>>

\* ---------------------------------------------------------------------------------
\* two invocations of fit_fbx_to_fourier on the same arguments and files
\* ---------------------------------------------------------------------------------

\* what a finished invocation leaves: how it ended, the estimate and the payload
Outcome ==
    [pc |-> pc, phase_mode |-> phase_mode, cycle_duration |-> cycle_duration,
     phi |-> phi, payload |-> payload, calls |-> calls]

\* a variant: the second invocation starts on the frame the first one left
Rerun_KeepsFrame ==
    /\ fpc = "idle"
    /\ pc \in {"done", "aborted"}
    /\ fpc' = "rerun"
    /\ called' = "fit_fbx_to_fourier"
    /\ call_args' = [left_y |-> left_y, right_y |-> right_y]
    /\ call_result' = Outcome
    /\ pc' = "start"
    /\ UNCHANGED <<skeleton_swift, duration, fps, sample_count, t_samples, phi, phase_mode,
                   cycle_duration, skeleton, contacts_left, contacts_right, left_y,
                   right_y, calls, payload>>
    /\ UNCHANGED curve_vars

\* The first invocation has returned or raised; the outcome and the foot heights it
\* worked on are kept for comparison, and fit_fbx_to_fourier is entered again with the
\* same arguments. The module holds no mutable global (TIME_SCALE is its only
\* module-level assignment) and no function has a mutable default, so the new frame
\* starts with no local bound.
Rerun ==
    /\ fpc = "idle"
    /\ pc \in {"done", "aborted"}
    /\ fpc' = "rerun"
    /\ called' = "fit_fbx_to_fourier"
    /\ call_args' = [left_y |-> left_y, right_y |-> right_y]
    /\ call_result' = Outcome
    /\ pc' = "start"
    /\ sample_count' = 0
    /\ t_samples' = <<>>
    /\ phi' = <<>>
    /\ phase_mode' = ""
    /\ cycle_duration' = Zero
    /\ skeleton' = NoSkeletonLoaded
    /\ contacts_left' = <<>>
    /\ contacts_right' = <<>>
    /\ left_y' = <<>>
    /\ right_y' = <<>>
    /\ calls' = <<>>
    /\ payload' = [written |-> FALSE]
    /\ UNCHANGED <<skeleton_swift, duration, fps>>
    /\ UNCHANGED curve_vars

\* compute_foot_contacts of the second invocation: the curves are those of the first,
\* so the foot heights are
ComputeFootContactsAgain ==
    /\ fpc = "rerun"
    /\ pc = "contacts"
    /\ UNCHANGED <<curve_vars, call_vars>>
    /\ ~FeetMissing(skeleton)
    /\ ~ParentOutOfRange(skeleton)
    /\ call_args.left_y \in FootHeights(skeleton, left_name, sample_count)
    /\ call_args.right_y \in FootHeights(skeleton, right_name, sample_count)
    /\ left_y' = call_args.left_y
    /\ right_y' = call_args.right_y
    /\ contacts_left' = compute_weights(call_args.left_y)
    /\ contacts_right' = compute_weights(call_args.right_y)
    /\ pc' = "left_contact"
    /\ UNCHANGED <<skeleton_swift, duration, fps, sample_count, t_samples, phi, phase_mode,
                   cycle_duration, skeleton, calls, payload>>

FirstRun ==
    /\ fpc = "idle"
    /\ Next

SecondRun ==
    /\ fpc = "rerun"
    /\ pc # "contacts" \/ FeetMissing(skeleton) \/ ParentOutOfRange(skeleton)
    /\ Next

NextTwice ==
    \/ FirstRun
    \/ Rerun
    \/ ComputeFootContactsAgain
    \/ SecondRun

SpecTwice == Init /\ [][NextTwice]_vars

\* ---------------------------------------------------------------------------------
\* C18
\* ---------------------------------------------------------------------------------

SecondEnded == fpc = "rerun" /\ pc \in {"done", "aborted"}

Constant(s) == s # <<>> /\ \A i \in 1..Len(s) : s[i] = s[1]

BothConstant == Constant(left_y) /\ Constant(right_y)

\* var of compute_phase_from_autocorr: the sum of the squares of the centered values
Variance(values) ==
    LET mean == RDiv(RSum(values), R(Len(values)))
    IN  Corr(List([i \in 1..Len(values) |-> RSub(values[i], mean)]), 0)

\* no quotient of the sequence was taken over a zero divisor
Finite(s) == \A i \in 1..Len(s) : s[i][2] > 0

CascadeOver == pc \in {"stride", "fit", "done"}

\* C19: when both foot heights are constant, the contact weights are flat,
\* compute_phase_from_contacts finds no event, detect_minima_events returns no event,
\* the autocorrelation fails (on its variance guard when there are 4 samples or more),
\* and the estimator ends in normalized time with cycle_duration = duration; no value
\* it leaves is a quotient by zero and the run does not abort.
C19_ConstantHeightsFallBack ==
    BothConstant =>
        /\ Constant(contacts_left) /\ Constant(contacts_right)
        /\ Finite(contacts_left) /\ Finite(contacts_right)
        /\ ContactEvents(t_samples, contacts_left) = <<>>
        /\ ContactEvents(t_samples, contacts_right) = <<>>
        /\ LeftContactResult = NoResult /\ RightContactResult = NoResult
        /\ detect_minima_events(t_samples, left_y) = <<>>
        /\ detect_minima_events(t_samples, right_y) = <<>>
        /\ Variance(left_y) = Zero /\ Variance(right_y) = Zero
        /\ LeftAutoResult = NoResult /\ RightAutoResult = NoResult
        /\ pc # "aborted"
        /\ CascadeOver =>
              /\ phase_mode = "normalized_time"
              /\ cycle_duration = duration
              /\ phi = NormalizedPhase(sample_count)
              /\ Finite(phi)
              /\ \A k \in 1..Len(calls) : calls[k].result = NoResult
        /\ pc = "done" => payload.phase = [mode |-> "normalized_time",
                                            cycle_duration |-> duration]

\* a finished run on 20 samples of two constant heights: the five strategies were
\* called and the left autocorrelation passed its length guard
C19_Witness ==
    /\ pc = "done"
    /\ BothConstant
    /\ SkeletonLoaded
    /\ sample_count = 20
    /\ Len(calls) = 5
    /\ calls[5].fn = "compute_phase_from_autocorr"
    /\ payload.written

\* ---------------------------------------------------------------------------------
\* compute_phase_from_contacts, its loop taken one sample at a time
\* ---------------------------------------------------------------------------------

MaxContactLen == 6
ContactLevels == {Zero, <<3, 10>>, <<1, 2>>, One}
ContactTimes(n) == List([i \in 1..n |-> R(100 * (i - 1))])

ContactInputs ==
    UNION {{[times |-> ContactTimes(n), weights |-> w] : w \in [1..n -> ContactLevels]} :
              n \in 0..MaxContactLen}

InitContacts ==
    /\ RunIdle
    /\ CurvesIdle
    /\ fpc = "call"
    /\ called = "compute_phase_from_contacts"
    /\ call_args \in ContactInputs
    /\ call_result = <<>>

\* the locals of the call; index counts from 0 as range(1, len(weights)) does
Locals(threshold, prev, index, events, phase, period) ==
    [threshold |-> threshold, prev |-> prev, index |-> index, events |-> events,
     phase |-> phase, period |-> period]

\* lines 367-371: return [], 0.0
ContactsReturnEarly ==
    /\ fpc = "call"
    /\ called = "compute_phase_from_contacts"
    /\ IF call_args.times = <<>> \/ call_args.weights = <<>>
       THEN TRUE
       ELSE RLe(RMaxSeq(call_args.weights), Zero)
    /\ call_result' = Locals(<<1, 2>>, Zero, 0, <<>>, <<>>, Zero)
    /\ fpc' = "done"
    /\ CallFrame

\* lines 369-375: the threshold, events = [], prev = weights[0]
ContactsStart ==
    /\ fpc = "call"
    /\ called = "compute_phase_from_contacts"
    /\ call_args.times # <<>>
    /\ call_args.weights # <<>>
    /\ ~RLe(RMaxSeq(call_args.weights), Zero)
    /\ LET max_w == RMaxSeq(call_args.weights)
           threshold == IF RLt(max_w, <<1, 2>>) THEN RMul(max_w, <<3, 5>>) ELSE <<1, 2>>
       IN  call_result' = Locals(threshold, call_args.weights[1], 1, <<>>, <<>>, Zero)
    /\ fpc' = "loop"
    /\ CallFrame

\* a variant: an event wherever the weight is at or above the threshold
ContactsStep_LevelTriggered ==
    /\ fpc = "loop"
    /\ called = "compute_phase_from_contacts"
    /\ call_result.index < Len(call_args.weights)
    /\ LET cur == call_args.weights[call_result.index + 1]
           crossed == RLe(call_result.threshold, cur)
       IN  call_result' =
               [call_result EXCEPT
                   !.events = IF crossed
                              THEN Append(@, call_args.times[call_result.index + 1])
                              ELSE @,
                   !.prev = cur,
                   !.index = @ + 1]
    /\ UNCHANGED fpc
    /\ CallFrame

\* lines 376-380: one turn of the loop
ContactsStep ==
    /\ fpc = "loop"
    /\ called = "compute_phase_from_contacts"
    /\ call_result.index < Len(call_args.weights)
    /\ LET cur == call_args.weights[call_result.index + 1]
           crossed == RLt(call_result.prev, call_result.threshold)
                          /\ RLe(call_result.threshold, cur)
       IN  call_result' =
               [call_result EXCEPT
                   !.events = IF crossed
                              THEN Append(@, call_args.times[call_result.index + 1])
                              ELSE @,
                   !.prev = cur,
                   !.index = @ + 1]
    /\ UNCHANGED fpc
    /\ CallFrame

\* lines 382-404: after the loop
ContactsFinish ==
    /\ fpc = "loop"
    /\ called = "compute_phase_from_contacts"
    /\ call_result.index = Len(call_args.weights)
    /\ LET events == call_result.events
       IN  IF Len(events) < 2 \/ RLe(AvgPeriod(events), Zero)
           THEN call_result' = [call_result EXCEPT !.phase = <<>>, !.period = Zero]
           ELSE call_result' =
                    [call_result EXCEPT
                        !.phase = EventPhase(call_args.times, events, AvgPeriod(events)),
                        !.period = AvgPeriod(events)]
    /\ fpc' = "done"
    /\ CallFrame

NextContacts ==
    \/ ContactsReturnEarly
    \/ ContactsStart
    \/ ContactsStep
    \/ ContactsFinish

SpecContacts == InitContacts /\ [][NextContacts]_vars

\* ---------------------------------------------------------------------------------
\* C20
\* ---------------------------------------------------------------------------------

InContacts == called = "compute_phase_from_contacts" /\ fpc \in {"loop", "done"}

\* 0.5, or 0.6 * max(weights) when max(weights) < 0.5
AdaptiveThreshold ==
    LET max_w == RMaxSeq(call_args.weights)
    IN  IF RLt(max_w, <<1, 2>>) THEN RMul(max_w, <<3, 5>>) ELSE <<1, 2>>

\* the samples i >= 1 (counted from 0) below the bound with
\* weights[i - 1] < threshold <= weights[i]
Crossings(bound) ==
    {i \in 1..(bound - 1) :
        /\ RLt(call_args.weights[i], AdaptiveThreshold)
        /\ RLe(AdaptiveThreshold, call_args.weights[i + 1])}

\* C20: compute_phase_from_contacts records an event at sample i >= 1 exactly when
\* weights[i-1] < threshold <= weights[i], the threshold being 0.5 unless
\* max(weights) < 0.5 and then 0.6 * max(weights); sample 0 is never an event, whatever
\* the signal starts at; with fewer than 2 events, or max(weights) <= 0, or an empty
\* input, the phase returned is empty. What the loop returns is what the run model's
\* compute_phase_from_contacts gives.
C20_RisingEdgeEvents ==
    /\ (InContacts /\ call_args.weights # <<>> /\ ~RLe(RMaxSeq(call_args.weights), Zero)) =>
          LET at == Ascending(Crossings(call_result.index))
          IN  /\ call_result.threshold = AdaptiveThreshold
              /\ call_result.events =
                     List([k \in 1..Len(at) |-> call_args.times[at[k] + 1]])
              /\ \A k \in 1..Len(call_result.events) :
                     call_result.events[k] # call_args.times[1]
              /\ (fpc = "done" /\ Len(call_result.events) < 2) => call_result.phase = <<>>
    /\ (InContacts /\ (call_args.weights = <<>> \/ RLe(RMaxSeq(call_args.weights), Zero))) =>
          /\ fpc = "done"
          /\ call_result.phase = <<>>
          /\ call_result.events = <<>>
    /\ (InContacts /\ fpc = "done") =>
          [phase |-> call_result.phase, period |-> call_result.period]
              = compute_phase_from_contacts(call_args.times, call_args.weights)

\* a signal that never reaches 0.5 and starts at its maximum: the threshold is lowered,
\* sample 0 is no event, and the two later crossings give a phase
C20_Witness ==
    /\ InContacts
    /\ fpc = "done"
    /\ call_result.threshold = <<9, 50>>
    /\ RLe(call_result.threshold, call_args.weights[1])
    /\ Len(call_result.events) = 2
    /\ call_result.phase # <<>>

\* ---------------------------------------------------------------------------------
\* compute_phase_from_events, its loop taken one sample at a time (lines 427-448; the
\* same statements close compute_phase_from_contacts, lines 384-404)
\* ---------------------------------------------------------------------------------

MaxEventSamples == 35
EventSpacing == 2

\* sample indices (from 1) an event may lie at: near the start, around the middle and
\* near the end, so that the every-other mean falls on both sides of 1.5 times the
\* adjacent mean
EventPositions == {1, 3, 15, 17, 19, 21, 31, MaxEventSamples - 2, MaxEventSamples - 1, MaxEventSamples}

\* the events of a detector are sample times in ascending order, no two of them
\* adjacent samples
EventIndexSets ==
    {S \in SUBSET EventPositions :
        \A a \in S, b \in S : a < b => b - a >= EventSpacing}

EventInputs ==
    LET times == ContactTimes(MaxEventSamples)
    IN  {[times |-> times,
          events |-> LET at == Ascending(S) IN List([k \in 1..Len(at) |-> times[at[k]]])] :
            S \in EventIndexSets}

InitEvents ==
    /\ RunIdle
    /\ CurvesIdle
    /\ fpc = "call"
    /\ called = "compute_phase_from_events"
    /\ call_args \in EventInputs
    /\ call_result = <<>>

\* the locals of the call; index is the number of sample times already visited and
\* event_index counts from 0
EventLocals(avg_period, event_index, index, phase, period) ==
    [avg_period |-> avg_period, event_index |-> event_index, index |-> index,
     phase |-> phase, period |-> period]

\* lines 428-429 and 437-438: return [], 0.0
EventsReturnEarly ==
    /\ fpc = "call"
    /\ called = "compute_phase_from_events"
    /\ IF Len(call_args.events) < 2 THEN TRUE ELSE RLe(AvgPeriod(call_args.events), Zero)
    /\ call_result' = EventLocals(Zero, 0, 0, <<>>, Zero)
    /\ fpc' = "done"
    /\ CallFrame

\* lines 430-440: avg_period, phase = [], event_index = 0
EventsStart ==
    /\ fpc = "call"
    /\ called = "compute_phase_from_events"
    /\ Len(call_args.events) >= 2
    /\ ~RLe(AvgPeriod(call_args.events), Zero)
    /\ call_result' = EventLocals(AvgPeriod(call_args.events), 0, 0, <<>>, Zero)
    /\ fpc' = "loop"
    /\ CallFrame

\* a variant: while ... and t > events[event_index + 1]
RECURSIVE Advance_Strict(_, _, _)
Advance_Strict(events, event_index, t) ==
    IF event_index + 1 < Len(events) /\ RLt(events[event_index + 2], t)
    THEN Advance_Strict(events, event_index + 1, t)
    ELSE event_index

\* while event_index + 1 < len(events) and t >= events[event_index + 1]: event_index += 1
RECURSIVE Advance(_, _, _)
Advance(events, event_index, t) ==
    IF event_index + 1 < Len(events) /\ RLe(events[event_index + 2], t)
    THEN Advance(events, event_index + 1, t)
    ELSE event_index

\* lines 441-446: one turn of the loop over the sample times
EventsStep ==
    /\ fpc = "loop"
    /\ called = "compute_phase_from_events"
    /\ call_result.index < Len(call_args.times)
    /\ LET t == call_args.times[call_result.index + 1]
           event_index == Advance(call_args.events, call_result.event_index, t)
           ratio == RDiv(RSub(t, call_args.events[event_index + 1]), call_result.avg_period)
       IN  call_result' =
               [call_result EXCEPT
                   !.event_index = event_index,
                   !.phase = Append(@, RSub(ratio, R(RFloor(ratio)))),
                   !.index = @ + 1]
    /\ UNCHANGED fpc
    /\ CallFrame

\* line 447: return phase, avg_period
EventsFinish ==
    /\ fpc = "loop"
    /\ called = "compute_phase_from_events"
    /\ call_result.index = Len(call_args.times)
    /\ call_result' = [call_result EXCEPT !.period = call_result.avg_period]
    /\ fpc' = "done"
    /\ CallFrame

NextEvents ==
    \/ EventsReturnEarly
    \/ EventsStart
    \/ EventsStep
    \/ EventsFinish

SpecEvents == InitEvents /\ [][NextEvents]_vars

\* ---------------------------------------------------------------------------------
\* C21
\* ---------------------------------------------------------------------------------

InEvents == called = "compute_phase_from_events" /\ fpc \in {"loop", "done"}

EventCount == Len(call_args.events)

\* the mean of the gaps events[i + 1] - events[i]: their sum is last - first
AdjacentMean ==
    RDiv(RSub(call_args.events[EventCount], call_args.events[1]), R(EventCount - 1))

\* the mean of the gaps events[i + 2] - events[i], of three events or more: their sum is
\* the last two events less the first two
EveryOtherMean ==
    RDiv(RSub(RAdd(call_args.events[EventCount], call_args.events[EventCount - 1]),
              RAdd(call_args.events[2], call_args.events[1])),
         R(EventCount - 2))

\* C21: the period of an event-based strategy is the mean gap between consecutive
\* events, except that with 3 or more events the mean gap between every-other event is
\* used instead exactly when it is strictly greater than 1.5 times the adjacent mean;
\* with exactly 2 events the period is events[1] - events[0].
C21_PeriodOfEvents ==
    (InEvents /\ EventCount >= 2) =>
        /\ call_result.avg_period =
               IF EventCount >= 3 /\ RLt(RMul(AdjacentMean, <<3, 2>>), EveryOtherMean)
               THEN EveryOtherMean
               ELSE AdjacentMean
        /\ EventCount = 2 =>
               call_result.avg_period = RSub(call_args.events[2], call_args.events[1])
        /\ fpc = "done" => call_result.period = call_result.avg_period

\* five events whose every-other mean is exactly 1.5 times the adjacent mean: the
\* adjacent mean is the period
C21_Witness ==
    /\ InEvents
    /\ fpc = "done"
    /\ EventCount = 5
    /\ EveryOtherMean = RMul(AdjacentMean, <<3, 2>>)
    /\ call_result.period = AdjacentMean

\* ---------------------------------------------------------------------------------
\* C22
\* ---------------------------------------------------------------------------------

\* the latest event at or before t, the first event when none is
LatestEvent(t) ==
    LET before == {k \in 1..EventCount : RLe(call_args.events[k], t)}
    IN  IF before = {} THEN call_args.events[1]
        ELSE call_args.events[CHOOSE k \in before : \A j \in before : j <= k]

IsEvent(t) == \E k \in 1..EventCount : call_args.events[k] = t

\* C22: the phase of a sample time t is the fractional part of (t - t_event) / period,
\* t_event being the latest event at or before t (the first event when no event
\* precedes t); it is 0 at every sample time that is itself an event. What the loop
\* returns is what the run model's compute_phase_from_events gives.
C22_PhaseOfSample ==
    /\ (InEvents /\ EventCount >= 2) =>
          /\ Len(call_result.phase) = call_result.index
          /\ \A i \in 1..call_result.index :
                LET t == call_args.times[i]
                    ratio == RDiv(RSub(t, LatestEvent(t)), call_result.avg_period)
                IN  /\ call_result.phase[i] = RSub(ratio, R(RFloor(ratio)))
                    /\ IsEvent(t) => call_result.phase[i] = Zero
    /\ (InEvents /\ fpc = "done") =>
          [phase |-> call_result.phase, period |-> call_result.period]
              = compute_phase_from_events(call_args.times, call_args.events)

\* a finished call with three events, the first one after the first sample: samples
\* before it have a phase counted back from it, and the events have phase 0
C22_Witness ==
    /\ InEvents
    /\ fpc = "done"
    /\ EventCount = 3
    /\ RLt(call_args.times[1], call_args.events[1])
    /\ call_result.phase[1] # Zero
    /\ \E i \in 1..Len(call_args.times) :
          call_args.times[i] = call_args.events[3] /\ call_result.phase[i] = Zero

\* ---------------------------------------------------------------------------------
\* C29
\* ---------------------------------------------------------------------------------

EquallySpaced ==
    \A k \in 2..(EventCount - 1) :
        RSub(call_args.events[k + 1], call_args.events[k])
            = RSub(call_args.events[2], call_args.events[1])

\* C29: three or more equally spaced events of spacing d give the period 2d, not d;
\* exactly three events give the period events[2] - events[0], whatever their spacing.
C29_EqualSpacingDoubles ==
    (InEvents /\ fpc = "done" /\ EventCount >= 3) =>
        /\ EquallySpaced =>
              call_result.period =
                  RMul(R(2), RSub(call_args.events[2], call_args.events[1]))
        /\ EventCount = 3 =>
              call_result.period = RSub(call_args.events[3], call_args.events[1])

\* four events two samples apart: the period is four samples
C29_Witness ==
    /\ InEvents
    /\ fpc = "done"
    /\ EventCount = 4
    /\ EquallySpaced
    /\ RSub(call_args.events[2], call_args.events[1]) = R(200)
    /\ call_result.period = R(400)

\* ---------------------------------------------------------------------------------
\* detect_minima_events, its loop taken one sample at a time (lines 407-424)
\* ---------------------------------------------------------------------------------

MaxMinimaSamples == 25
MinimaLengths == {2, 3, 12, MaxMinimaSamples}

MinimaInputs ==
    UNION {{[times |-> ContactTimes(n), values |-> List(ys)] : ys \in Signals(n)} :
              n \in MinimaLengths}

InitMinima ==
    /\ RunIdle
    /\ CurvesIdle
    /\ fpc = "call"
    /\ called = "detect_minima_events"
    /\ call_args \in MinimaInputs
    /\ call_result = <<>>

\* the locals of the call; index counts from 0 as range(1, len(values) - 1) does;
\* last_t is None until an event is accepted (the code holds -1e9 there, which is
\* more than min_spacing before every sample time)
MinimaLocals(threshold, min_spacing, last_t, index, events) ==
    [threshold |-> threshold, min_spacing |-> min_spacing, last_t |-> last_t,
     index |-> index, events |-> events]

\* v_max - v_min of a non-empty sequence
Range(values) == RSub(RMaxSeq(values), RMinSeq(values))

\* lines 408-413: return []
MinimaReturnEarly ==
    /\ fpc = "call"
    /\ called = "detect_minima_events"
    /\ IF Len(call_args.values) < 3 THEN TRUE ELSE RLe(Range(call_args.values), <<1, 10>>)
    /\ call_result' = MinimaLocals(Zero, Zero, None, 0, <<>>)
    /\ fpc' = "done"
    /\ CallFrame

\* lines 410-417: threshold, events = [], last_t = -1e9, min_spacing
MinimaStart ==
    /\ fpc = "call"
    /\ called = "detect_minima_events"
    /\ Len(call_args.values) >= 3
    /\ ~RLe(Range(call_args.values), <<1, 10>>)
    /\ LET times == call_args.times
           threshold == RAdd(RMinSeq(call_args.values),
                             RMul(Range(call_args.values), <<1, 4>>))
           min_spacing == RMul(RDiv(RSub(Last(times), times[1]), R(Len(times))), R(10))
       IN  call_result' = MinimaLocals(threshold, min_spacing, None, 1, <<>>)
    /\ fpc' = "loop"
    /\ CallFrame

\* a variant: every local minimum at or below the threshold is accepted
MinimaStep_NoSpacing ==
    /\ fpc = "loop"
    /\ called = "detect_minima_events"
    /\ call_result.index < Len(call_args.values) - 1
    /\ LET i == call_result.index + 1
           values == call_args.values
           t == call_args.times[i]
           low == /\ RLe(values[i], values[i - 1])
                  /\ RLe(values[i], values[i + 1])
                  /\ RLe(values[i], call_result.threshold)
       IN  call_result' =
               [call_result EXCEPT
                   !.events = IF low THEN Append(@, t) ELSE @,
                   !.last_t = IF low THEN <<t>> ELSE @,
                   !.index = @ + 1]
    /\ UNCHANGED fpc
    /\ CallFrame

\* lines 418-423: one turn of the loop
MinimaStep ==
    /\ fpc = "loop"
    /\ called = "detect_minima_events"
    /\ call_result.index < Len(call_args.values) - 1
    /\ LET i == call_result.index + 1
           values == call_args.values
           t == call_args.times[i]
           low == /\ RLe(values[i], values[i - 1])
                  /\ RLe(values[i], values[i + 1])
                  /\ RLe(values[i], call_result.threshold)
           spaced == IF call_result.last_t = None THEN TRUE
                     ELSE RLe(call_result.min_spacing, RSub(t, call_result.last_t[1]))
           accepted == low /\ spaced
       IN  call_result' =
               [call_result EXCEPT
                   !.events = IF accepted THEN Append(@, t) ELSE @,
                   !.last_t = IF accepted THEN <<t>> ELSE @,
                   !.index = @ + 1]
    /\ UNCHANGED fpc
    /\ CallFrame

\* line 424: return events
MinimaFinish ==
    /\ fpc = "loop"
    /\ called = "detect_minima_events"
    /\ call_result.index = Len(call_args.values) - 1
    /\ UNCHANGED call_result
    /\ fpc' = "done"
    /\ CallFrame

NextMinima ==
    \/ MinimaReturnEarly
    \/ MinimaStart
    \/ MinimaStep
    \/ MinimaFinish

SpecMinima == InitMinima /\ [][NextMinima]_vars

\* ---------------------------------------------------------------------------------
\* C23
\* ---------------------------------------------------------------------------------

InMinima == called = "detect_minima_events" /\ fpc \in {"loop", "done"}

\* sample i (from 1) is an inner sample no greater than both neighbours and at or below
\* min + 0.25 * (max - min)
LowMinimum(i) ==
    LET values == call_args.values
    IN  /\ 1 < i /\ i < Len(values)
        /\ RLe(values[i], values[i - 1])
        /\ RLe(values[i], values[i + 1])
        /\ RLe(values[i], RAdd(RMinSeq(values), RMul(Range(values), <<1, 4>>)))

\* the mean interval between consecutive sample times
MeanInterval ==
    RDiv(RSub(Last(call_args.times), call_args.times[1]), R(Len(call_args.times) - 1))

NoMinimaInput ==
    IF Len(call_args.values) < 3 THEN TRUE ELSE RLe(Range(call_args.values), <<1, 10>>)

\* C23: detect_minima_events accepts only samples that are local minima of the heights
\* (no greater than both neighbours) at or below min + 0.25 * (max - min); any two
\* accepted events are at least 10 times the mean sample interval apart; fewer than 3
\* samples, or a range of at most 1e-4, give no event. What the loop returns is what the
\* run model's detect_minima_events gives.
C23_MinimaEvents ==
    /\ (InMinima /\ ~NoMinimaInput) =>
          /\ \A k \in 1..Len(call_result.events) :
                \E i \in 1..Len(call_args.values) :
                    call_args.times[i] = call_result.events[k] /\ LowMinimum(i)
          /\ \A j \in 1..Len(call_result.events), k \in 1..Len(call_result.events) :
                j < k => RLe(RMul(R(10), MeanInterval),
                             RSub(call_result.events[k], call_result.events[j]))
    /\ (InMinima /\ NoMinimaInput) => (fpc = "done" /\ call_result.events = <<>>)
    /\ (InMinima /\ fpc = "done") =>
          call_result.events = detect_minima_events(call_args.times, call_args.values)

\* a finished call that accepted two events and passed over a low minimum too close to
\* the one before it
C23_Witness ==
    /\ InMinima
    /\ fpc = "done"
    /\ Len(call_result.events) >= 2
    /\ \E i \in 1..Len(call_args.values) :
          /\ LowMinimum(i)
          /\ \A k \in 1..Len(call_result.events) : call_result.events[k] # call_args.times[i]

\* ---------------------------------------------------------------------------------
\* C24
\* ---------------------------------------------------------------------------------

\* the calls of the log made for a foot by a function in a role
CallsOf(fn_name, foot, role) ==
    {k \in 1..Len(calls) :
        calls[k].fn = fn_name /\ calls[k].foot = foot /\ calls[k].role = role}

HeightOf(foot) == IF foot = "left" THEN left_y ELSE right_y

MinLabel(foot) == IF foot = "left" THEN "left_foot_min" ELSE "right_foot_min"

AutoLabel(foot) == IF foot = "left" THEN "left_foot_auto" ELSE "right_foot_auto"

\* the minima strategy of the foot was called and returned a phase
MinimaWon(foot) ==
    \E k \in CallsOf("compute_phase_from_events", foot, "strategy") :
        calls[k].result.phase # <<>>

\* C24: when the minima strategy succeeds for a foot, the autocorrelation of that foot's
\* height is attempted exactly when the minima cycle_duration is below 0.75 * duration;
\* a non-empty phase from it replaces the minima phase and period under the foot's
\* "_auto" label, otherwise the minima result stays under the "_min" label. No
\* refinement is attempted for a foot whose minima strategy did not succeed.
C24_RefinementOfMinima ==
    pc = "stride" =>
        \A foot \in {"left", "right"} :
            LET refinements == CallsOf("compute_phase_from_autocorr", foot, "refinement")
                minima == compute_phase_from_events(
                              t_samples, detect_minima_events(t_samples, HeightOf(foot)))
                auto == compute_phase_from_autocorr(t_samples, HeightOf(foot))
            IN  IF MinimaWon(foot)
                THEN /\ (refinements # {}) <=>
                            RLt(minima.period, RMul(duration, <<3, 4>>))
                     /\ Cardinality(refinements) <= 1
                     /\ \A k \in refinements : calls[k].result = auto /\ k = Len(calls)
                     /\ IF refinements # {} /\ auto.phase # <<>>
                        THEN Selected(auto, AutoLabel(foot))
                        ELSE Selected(minima, MinLabel(foot))
                ELSE refinements = {}

\* the minima of the right foot won with a short cycle and the autocorrelation of the
\* right height replaced them
C24_Witness ==
    /\ pc = "stride"
    /\ MinimaWon("right")
    /\ phase_mode = "right_foot_auto"
    /\ calls[Len(calls)].role = "refinement"
    /\ left_y # right_y

\* ---------------------------------------------------------------------------------
\* compute_phase_from_autocorr, its scan taken one lag at a time (lines 451-495)
\* ---------------------------------------------------------------------------------

MaxAutocorrSamples == 21
AutocorrLengths == {3, 4, 8, MaxAutocorrSamples}

\* sample spacings in ms (40 and 10 samples a second)
AutocorrSpacings == {25, 100}

AutocorrTimes(n, step) == List([i \in 1..n |-> R(step * (i - 1))])

AutocorrInputs ==
    UNION {{[times |-> AutocorrTimes(n, step), values |-> List(ys)] :
               ys \in Signals(n), step \in AutocorrSpacings} :
              n \in AutocorrLengths}

InitAutocorr ==
    /\ RunIdle
    /\ CurvesIdle
    /\ fpc = "call"
    /\ called = "compute_phase_from_autocorr"
    /\ call_args \in AutocorrInputs
    /\ call_result = <<>>

\* values less their mean
Centered(values) ==
    LET mean == RDiv(RSum(values), R(Len(values)))
    IN  List([i \in 1..Len(values) |-> RSub(values[i], mean)])

\* lines 452-462: the guards on the lengths, on the time span and on the variance
AutocorrRejects(times, values) ==
    IF Len(times) < 4 \/ Len(values) # Len(times) THEN TRUE
    ELSE IF RLe(RSub(Last(times), times[1]), Zero) THEN TRUE
    ELSE RLe(Corr(Centered(values), 0), One)

\* the locals of the call; lag is the next lag of range(min_lag, max_lag + 1) to visit;
\* best_corr is None until a lag was visited (the code holds -1e9 there, below every
\* sum of the model)
AutocorrLocals(dt, min_lag, max_lag, lag, best_lag, best_corr, corr_table) ==
    [dt |-> dt, min_lag |-> min_lag, max_lag |-> max_lag, lag |-> lag,
     best_lag |-> best_lag, best_corr |-> best_corr, corr_table |-> corr_table,
     phase |-> <<>>, period |-> Zero]

AutocorrReturnEarly ==
    /\ fpc = "call"
    /\ called = "compute_phase_from_autocorr"
    /\ AutocorrRejects(call_args.times, call_args.values)
    /\ call_result' = AutocorrLocals(Zero, 0, 0, 0, 0, None, <<>>)
    /\ fpc' = "done"
    /\ CallFrame

\* a variant: the bounds of the scan rounded to the nearest integer
AutocorrStart_Rounded ==
    /\ fpc = "call"
    /\ called = "compute_phase_from_autocorr"
    /\ ~AutocorrRejects(call_args.times, call_args.values)
    /\ LET n == Len(call_args.values)
           dt == RDiv(RSub(Last(call_args.times), call_args.times[1]), R(n))
           lag0 == RRound(RDiv(R(200), RMax(dt, <<1, 1000>>)))
           lag1 == RRound(RMul(<<9, 10>>, R(n)))
           min_lag == IF lag0 > 2 THEN lag0 ELSE 2
           max_lag == IF n - 2 < lag1 THEN n - 2 ELSE lag1
       IN  call_result' = AutocorrLocals(dt, min_lag, max_lag, min_lag, 0, None, <<>>)
    /\ fpc' = "scan"
    /\ CallFrame

\* lines 464-469: dt, min_lag, max_lag, best_lag = 0, best_corr = -1e9, corr_table = []
AutocorrStart ==
    /\ fpc = "call"
    /\ called = "compute_phase_from_autocorr"
    /\ ~AutocorrRejects(call_args.times, call_args.values)
    /\ LET n == Len(call_args.values)
           dt == RDiv(RSub(Last(call_args.times), call_args.times[1]), R(n))
       IN  call_result' =
               AutocorrLocals(dt, MinLag(dt), MaxLag(n), MinLag(dt), 0, None, <<>>)
    /\ fpc' = "scan"
    /\ CallFrame

\* lines 470-478: one lag of the scan
AutocorrStep ==
    /\ fpc = "scan"
    /\ called = "compute_phase_from_autocorr"
    /\ call_result.lag <= call_result.max_lag
    /\ LET lag == call_result.lag
           corr == Corr(Centered(call_args.values), lag)
           better == IF call_result.best_corr = None THEN TRUE
                     ELSE RLt(call_result.best_corr[1], corr)
       IN  call_result' =
               [call_result EXCEPT
                   !.corr_table = Append(@, <<lag, corr>>),
                   !.best_corr = IF better THEN <<corr>> ELSE @,
                   !.best_lag = IF better THEN lag ELSE @,
                   !.lag = @ + 1]
    /\ UNCHANGED fpc
    /\ CallFrame

\* lines 479-483: the largest lag of the table at or above 0.9 * best_corr, if any
AutocorrPrefer ==
    /\ fpc = "scan"
    /\ called = "compute_phase_from_autocorr"
    /\ call_result.lag > call_result.max_lag
    /\ LET table == call_result.corr_table
           preferred ==
               IF table = <<>> THEN {}
               ELSE {table[k][1] : k \in {j \in 1..Len(table) :
                        RLe(RMul(call_result.best_corr[1], <<9, 10>>), table[j][2])}}
       IN  call_result' =
               [call_result EXCEPT
                   !.best_lag = IF preferred = {} THEN @
                                ELSE CHOOSE lag \in preferred : \A o \in preferred : o <= lag]
    /\ fpc' = "chosen"
    /\ CallFrame

\* lines 484-495: the guards on best_lag and on the period, then the phase
AutocorrFinish ==
    /\ fpc = "chosen"
    /\ called = "compute_phase_from_autocorr"
    /\ LET times == call_args.times
           period == RMul(R(call_result.best_lag), call_result.dt)
       IN  IF call_result.best_lag <= 0 \/ RLe(period, Zero)
           THEN call_result' = [call_result EXCEPT !.phase = <<>>, !.period = Zero]
           ELSE call_result' =
                    [call_result EXCEPT
                        !.phase = List([i \in 1..Len(times) |->
                                     RDiv(RMod(RSub(times[i], times[1]), period), period)]),
                        !.period = period]
    /\ fpc' = "done"
    /\ CallFrame

NextAutocorr ==
    \/ AutocorrReturnEarly
    \/ AutocorrStart
    \/ AutocorrStep
    \/ AutocorrPrefer
    \/ AutocorrFinish

SpecAutocorr == InitAutocorr /\ [][NextAutocorr]_vars

\* ---------------------------------------------------------------------------------
\* C25
\* ---------------------------------------------------------------------------------

AutocorrScanned ==
    /\ called = "compute_phase_from_autocorr"
    /\ fpc = "done"
    /\ ~AutocorrRejects(call_args.times, call_args.values)

\* dt = (times[-1] - times[0]) / n
LagStep ==
    RDiv(RSub(Last(call_args.times), call_args.times[1]), R(Len(call_args.values)))

LagRange == call_result.min_lag..call_result.max_lag

LagSum(lag) == Corr(Centered(call_args.values), lag)

\* the largest autocorrelation sum over a non-empty range
MaxLagSum == LagSum(CHOOSE lag \in LagRange : \A o \in LagRange : RLe(LagSum(o), LagSum(lag)))

\* the lags of the range whose sum is at least 90% of the largest
NearBest == {lag \in LagRange : RLe(RMul(MaxLagSum, <<9, 10>>), LagSum(lag))}

Largest(S) == CHOOSE x \in S : \A y \in S : y <= x

Smallest(S) == CHOOSE x \in S : \A y \in S : x <= y

Larger(a, b) == IF a > b THEN a ELSE b

Smaller(a, b) == IF a < b THEN a ELSE b

\* C25 (as amended): the lags searched are [max(2, int(0.2/dt)), min(n-2, int(0.9n))],
\* int() truncating, with dt = (times[-1] - times[0]) / n; the lag used is the largest
\* lag of the range whose autocorrelation sum is at least 0.9 times the largest sum, and,
\* when no lag is (the largest sum is negative), the first lag that attains the largest
\* sum; cycle_duration = that lag * dt; an empty range yields no result. What the scan
\* returns is what the run model's compute_phase_from_autocorr gives.
C25_LagSearch ==
    /\ AutocorrScanned =>
          LET n == Len(call_args.values)
          IN  /\ call_result.dt = LagStep
              /\ call_result.min_lag = Larger(2, RDiv(R(200), LagStep)[1] \div RDiv(R(200), LagStep)[2])
              /\ call_result.max_lag = Smaller(n - 2, (9 * n) \div 10)
              /\ Len(call_result.corr_table) = Cardinality(LagRange)
              /\ IF LagRange = {}
                 THEN call_result.phase = <<>> /\ call_result.period = Zero
                 ELSE /\ call_result.best_lag =
                            IF NearBest # {} THEN Largest(NearBest)
                            ELSE Smallest({lag \in LagRange : LagSum(lag) = MaxLagSum})
                      /\ call_result.period = RMul(R(call_result.best_lag), LagStep)
                      /\ call_result.phase # <<>>
    /\ (called = "compute_phase_from_autocorr" /\ fpc = "done") =>
          [phase |-> call_result.phase, period |-> call_result.period]
              = compute_phase_from_autocorr(call_args.times, call_args.values)

\* C25 as stated: the lags searched are [max(2, round(0.2/dt)), min(n-2, round(0.9n))]
\* and the lag used is the largest lag of the range whose autocorrelation sum is at
\* least 90% of the maximum over the range; cycle_duration = that lag * dt; an empty
\* range yields no result.
C25_LagSearchRounded ==
    AutocorrScanned =>
        LET n == Len(call_args.values)
        IN  /\ call_result.min_lag = Larger(2, RRound(RDiv(R(200), LagStep)))
            /\ call_result.max_lag = Smaller(n - 2, RRound(RMul(<<9, 10>>, R(n))))
            /\ IF LagRange = {}
               THEN call_result.phase = <<>>
               ELSE /\ NearBest # {}
                    /\ call_result.best_lag = Largest(NearBest)
                    /\ call_result.period = RMul(R(call_result.best_lag), LagStep)

\* a scan of 21 samples over the lags 2..18 (0.9 * 21 = 18.9) that found two lags or
\* more within 90% of the best and took the largest, which is not the best one
C25_Witness ==
    /\ AutocorrScanned
    /\ Len(call_args.values) = MaxAutocorrSamples
    /\ call_result.min_lag = 2
    /\ call_result.max_lag = (9 * MaxAutocorrSamples) \div 10
    /\ Cardinality(NearBest) >= 2
    /\ call_result.best_lag = Largest(NearBest)
    /\ RLt(LagSum(call_result.best_lag), MaxLagSum)
    /\ call_result.phase # <<>>

\* ---------------------------------------------------------------------------------
\* compute_foot_contacts, its kinematics taken one sample time at a time
\* (lines 261-363).  Matrices are sequences of four rows of four rationals; angles are
\* whole quarter turns, so that their cosines and sines are exact.
\* ---------------------------------------------------------------------------------

\* whether every entry of the matrix is a whole number
Whole(m) == \A i \in 1..4 : \A j \in 1..4 : m[i][j][2] = 1

\* lines 235-240; the operands are evaluated once, as m[1] and m[2], and whole
\* numbers are multiplied and added as integers
mat_mul(a, b) ==
    CHOOSE out \in
        {IF Whole(m[1]) /\ Whole(m[2])
         THEN List([i \in 1..4 |-> List([j \in 1..4 |->
                  R(m[1][i][1][1] * m[2][1][j][1] + m[1][i][2][1] * m[2][2][j][1]
                    + m[1][i][3][1] * m[2][3][j][1] + m[1][i][4][1] * m[2][4][j][1])])])
         ELSE List([i \in 1..4 |-> List([j \in 1..4 |->
                  RAdd(RAdd(RMul(m[1][i][1], m[2][1][j]), RMul(m[1][i][2], m[2][2][j])),
                       RAdd(RMul(m[1][i][3], m[2][3][j]), RMul(m[1][i][4], m[2][4][j])))])]) :
         m \in {<<a, b>>}} : TRUE

\* lines 226-232: the translation is the last row
translation_matrix(tx, ty, tz) ==
    << <<One, Zero, Zero, Zero>>,
       <<Zero, One, Zero, Zero>>,
       <<Zero, Zero, One, Zero>>,
       <<tx, ty, tz, One>> >>

\* lines 193-223
rotation_xyz_degrees(rx, ry, rz) ==
    LET cx == CosTurns(RDiv(rx, R(360)))
        sx == SinTurns(RDiv(rx, R(360)))
        cy == CosTurns(RDiv(ry, R(360)))
        sy == SinTurns(RDiv(ry, R(360)))
        cz == CosTurns(RDiv(rz, R(360)))
        sz == SinTurns(RDiv(rz, R(360)))
        rot_x == << <<One, Zero, Zero, Zero>>, <<Zero, cx, RNeg(sx), Zero>>,
                    <<Zero, sx, cx, Zero>>, <<Zero, Zero, Zero, One>> >>
        rot_y == << <<cy, Zero, sy, Zero>>, <<Zero, One, Zero, Zero>>,
                    <<RNeg(sy), Zero, cy, Zero>>, <<Zero, Zero, Zero, One>> >>
        rot_z == << <<cz, RNeg(sz), Zero, Zero>>, <<sz, cz, Zero, Zero>>,
                    <<Zero, Zero, One, Zero>>, <<Zero, Zero, Zero, One>> >>
    IN  mat_mul(rot_z, mat_mul(rot_y, rot_x))

\* lines 243-249
transform_point(mat, point) ==
    List([j \in 1..3 |->
        RAdd(RAdd(RMul(point[1], mat[1][j]), RMul(point[2], mat[2][j])),
             RAdd(RMul(point[3], mat[3][j]), mat[4][j]))])

ZeroMatrix == List([i \in 1..4 |-> <<Zero, Zero, Zero, Zero>>])

\* lines 250-258: model after the first k bones of the pass; a bone not reached yet
\* holds the zero matrix
RECURSIVE ModelAfter(_, _, _)
ModelAfter(parent, local, k) ==
    IF k = 0 THEN List([i \in 1..Len(local) |-> ZeroMatrix])
    ELSE CHOOSE out \in
             {[model EXCEPT ![k] = IF parent[k] < 0 THEN local[k]
                                   ELSE mat_mul(model[parent[k] + 1], local[k])] :
              model \in {ModelAfter(parent, local, k - 1)}} : TRUE

build_model_transforms(parent, local) == ModelAfter(parent, local, Len(local))

\* bone_anims.get(name, {}).get(channel, {})
CurvesOf(anims, name, channel) ==
    IF name \in DOMAIN anims THEN anims[name][channel] ELSE <<>>

\* "curves.get(axis) or AnimationCurve([], [], default)", sampled at t
SampleOr(axis_curves, axis, default, t) ==
    LET curve == Get(axis_curves, axis)
    IN  IF curve = None THEN default ELSE sample(curve[1], t)

\* line 292
rest_scaled(i, rest_raw, scale) ==
    IF i = 0 THEN <<Zero, Zero, Zero>>
    ELSE List([a \in 1..3 |-> RMul(rest_raw[a], scale)])

\* a variant: the root translation is left as animated
LocalTrans_Unpinned(i, trans_curves, rest_raw, scale, t, in_place) ==
    LET rest == rest_scaled(i, rest_raw, scale)
        anim_raw == <<SampleOr(trans_curves, "x", rest_raw[1], t),
                      SampleOr(trans_curves, "y", rest_raw[2], t),
                      SampleOr(trans_curves, "z", rest_raw[3], t)>>
    IN  List([a \in 1..3 |-> RAdd(rest[a], RMul(RSub(anim_raw[a], rest_raw[a]), scale))])

\* lines 291-308: trans of bone i (counted from 0) at time t
LocalTrans(i, trans_curves, rest_raw, scale, t, in_place) ==
    LET rest == rest_scaled(i, rest_raw, scale)
        anim_raw == <<SampleOr(trans_curves, "x", rest_raw[1], t),
                      SampleOr(trans_curves, "y", rest_raw[2], t),
                      SampleOr(trans_curves, "z", rest_raw[3], t)>>
        trans == List([a \in 1..3 |->
                     RAdd(rest[a], RMul(RSub(anim_raw[a], rest_raw[a]), scale))])
    IN  IF i = 0 /\ in_place THEN <<rest[1], trans[2], rest[3]>> ELSE trans

\* lines 310-320: rot of bone i at time t
LocalRot(i, rot_curves, pre_rot, t) ==
    LET rot == mat_mul(rotation_xyz_degrees(pre_rot[1], pre_rot[2], pre_rot[3]),
                       rotation_xyz_degrees(SampleOr(rot_curves, "x", Zero, t),
                                            SampleOr(rot_curves, "y", Zero, t),
                                            SampleOr(rot_curves, "z", Zero, t)))
    IN  IF i = 0 THEN mat_mul(rotation_xyz_degrees(Zero, R(180), Zero), rot) ELSE rot

\* lines 285-323: the local matrices of every bone at time t
LocalAt(anims, skel, t, in_place) ==
    List([k \in 1..Len(skel.names) |->
        LET trans == LocalTrans(k - 1, CurvesOf(anims, skel.names[k], "translation"),
                                skel.translations[k], skel.scale, t, in_place)
        IN  mat_mul(translation_matrix(trans[1], trans[2], trans[3]),
                    LocalRot(k - 1, CurvesOf(anims, skel.names[k], "rotation"),
                             skel.pre_rotations[k], t))])

Origin == <<Zero, Zero, Zero>>

\* line 324: the model matrices at time t
ModelAt(anims, skel, t, in_place) ==
    CHOOSE model \in {build_model_transforms(skel.parent, local) :
                         local \in {LocalAt(anims, skel, t, in_place)}} : TRUE

\* lines 325-326: the position of a foot at time t
FootPosition(anims, skel, name, t, in_place) ==
    transform_point(ModelAt(anims, skel, t, in_place)[BoneIndex(skel, name) + 1], Origin)

\* ---- the inputs of the model: lengths in raw units, scale in mm a unit, times in ms
FeetNames == <<"mixamorig:Hips", "mixamorig:LeftUpLeg", left_name, right_name>>
FeetParents == <<-1, 0, 1, 0>>
RootRests == {<<R(0), R(100), R(0)>>, <<R(5), R(100), R(3)>>}
RootPreRotations == {<<R(0), R(0), R(0)>>, <<R(0), R(0), R(90)>>}
FeetScales == {R(1), R(10)}

FeetSkeletons ==
    {[names |-> FeetNames, parent |-> FeetParents,
      translations |-> <<rest, <<R(10), R(-10), R(0)>>, <<R(0), R(-80), R(0)>>,
                         <<R(-10), R(-90), R(0)>> >>,
      pre_rotations |-> <<pre, <<R(90), R(0), R(0)>>, <<R(0), R(0), R(0)>>,
                          <<R(0), R(0), R(0)>> >>,
      scale |-> s] : rest \in RootRests, pre \in RootPreRotations, s \in FeetScales}

\* a skeleton without the right foot
FootlessSkeleton ==
    [names |-> <<"mixamorig:Hips", left_name>>, parent |-> <<-1, 0>>,
     translations |-> <<<<R(0), R(100), R(0)>>, <<R(0), R(-90), R(0)>> >>,
     pre_rotations |-> <<<<R(0), R(0), R(0)>>, <<R(0), R(0), R(0)>> >>,
     scale |-> R(1)]

\* the authored root translation curves: a drift and a hold
RootCurves ==
    {[times |-> <<R(0), R(1000)>>, values |-> <<R(0), R(40)>>, default_value |-> Zero],
     [times |-> <<R(0)>>, values |-> <<R(7)>>, default_value |-> Zero]}

RootAxisMaps == UNION {[S -> RootCurves] : S \in SUBSET AxisNames}

RootRotationMaps ==
    {<<>>, [axis \in {"z"} |-> [times |-> <<R(0)>>, values |-> <<R(90)>>,
                                 default_value |-> Zero]]}

\* the upper leg swings half a turn about x over the clip
LegAnim ==
    [translation |-> <<>>,
     rotation |-> [axis \in {"x"} |-> [times |-> <<R(0), R(1000)>>,
                                       values |-> <<R(0), R(180)>>, default_value |-> Zero]]]

FeetAnims ==
    {(FeetNames[1] :> [translation |-> tr, rotation |-> rot]) @@ (FeetNames[2] :> LegAnim) :
        tr \in RootAxisMaps, rot \in RootRotationMaps}

FeetTimes == <<R(0), R(500), R(1000)>>

FeetInputs ==
    [bone_anims : FeetAnims, skeleton : FeetSkeletons, t_samples : {FeetTimes},
     in_place : BOOLEAN]
      \cup [bone_anims : {(FeetNames[2] :> LegAnim)}, skeleton : {FootlessSkeleton},
            t_samples : {FeetTimes}, in_place : {TRUE}]

InitFeet ==
    /\ RunIdle
    /\ CurvesIdle
    /\ fpc = "call"
    /\ called = "compute_foot_contacts"
    /\ call_args \in FeetInputs
    /\ call_result = <<>>

\* the locals of the call: the positions so far, the root's trans at each sample
\* visited, and what is returned
FeetLocals(left_positions, right_positions, root_trans, result) ==
    [left_positions |-> left_positions, right_positions |-> right_positions,
     root_trans |-> root_trans, returned |-> result]

\* lines 272-275
FeetReturnEarly ==
    /\ fpc = "call"
    /\ called = "compute_foot_contacts"
    /\ FeetMissing(call_args.skeleton)
    /\ call_result' = FeetLocals(<<>>, <<>>, <<>>, <<<<>>, <<>> >>)
    /\ fpc' = "done"
    /\ CallFrame

\* lines 276-282
FeetStart ==
    /\ fpc = "call"
    /\ called = "compute_foot_contacts"
    /\ ~FeetMissing(call_args.skeleton)
    /\ call_result' = FeetLocals(<<>>, <<>>, <<>>, <<>>)
    /\ fpc' = "samples"
    /\ CallFrame

\* lines 284-326: one sample time
FeetSample ==
    /\ fpc = "samples"
    /\ called = "compute_foot_contacts"
    /\ Len(call_result.left_positions) < Len(call_args.t_samples)
    /\ LET t == call_args.t_samples[Len(call_result.left_positions) + 1]
           skel == call_args.skeleton
           model == List(ModelAt(call_args.bone_anims, skel, t, call_args.in_place))
       IN  call_result' =
               [call_result EXCEPT
                   !.left_positions =
                       Append(@, transform_point(model[BoneIndex(skel, left_name) + 1], Origin)),
                   !.right_positions =
                       Append(@, transform_point(model[BoneIndex(skel, right_name) + 1], Origin)),
                   !.root_trans =
                       Append(@, LocalTrans(0, CurvesOf(call_args.bone_anims, skel.names[1],
                                                        "translation"),
                                            skel.translations[1], skel.scale, t,
                                            call_args.in_place))]
    /\ UNCHANGED fpc
    /\ CallFrame

Heights(positions) == List([i \in 1..Len(positions) |-> positions[i][2]])

\* lines 328-363
FeetFinish ==
    /\ fpc = "samples"
    /\ called = "compute_foot_contacts"
    /\ Len(call_result.left_positions) = Len(call_args.t_samples)
    /\ call_result' =
           [call_result EXCEPT
               !.returned = <<compute_weights(Heights(call_result.left_positions)),
                              compute_weights(Heights(call_result.right_positions)),
                              Heights(call_result.left_positions),
                              Heights(call_result.right_positions)>>]
    /\ fpc' = "done"
    /\ CallFrame

NextFeet ==
    \/ FeetReturnEarly
    \/ FeetStart
    \/ FeetSample
    \/ FeetFinish

SpecFeet == InitFeet /\ [][NextFeet]_vars

\* ---------------------------------------------------------------------------------
\* C26
\* ---------------------------------------------------------------------------------

FeetDone ==
    /\ called = "compute_foot_contacts"
    /\ fpc = "done"
    /\ ~FeetMissing(call_args.skeleton)

RootName == call_args.skeleton.names[1]

RootTranslationCurves == call_args.bone_anims[RootName].translation

\* the bone_anims of the call with the root's x and z translation curves replaced
WithRootXZ(xz) ==
    LET y_curve == [a \in DOMAIN RootTranslationCurves \cap {"y"} |-> RootTranslationCurves[a]]
    IN  [call_args.bone_anims EXCEPT ![RootName].translation = xz @@ y_curve]

PositionsOf(anims, name) ==
    List([k \in 1..Len(call_args.t_samples) |->
        FootPosition(anims, call_args.skeleton, name, call_args.t_samples[k], TRUE)])

\* the foot positions are those of the call with the root's x and z translation
\* curves taken away: two calls that differ in these curves only return the same
XZCurvesIgnored ==
    /\ call_result.left_positions = PositionsOf(WithRootXZ(<<>>), left_name)
    /\ call_result.right_positions = PositionsOf(WithRootXZ(<<>>), right_name)

\* the root's y translation is the y curve's value (the rest value without a curve)
\* less the rest y, times the scale
YFollowsCurve ==
    \A k \in 1..Len(call_args.t_samples) :
        call_result.root_trans[k][2] =
            RMul(RSub(SampleOr(RootTranslationCurves, "y",
                               call_args.skeleton.translations[1][2], call_args.t_samples[k]),
                      call_args.skeleton.translations[1][2]),
                 call_args.skeleton.scale)

\* C26 (as amended): in in-place mode the root's local X and Z translation is 0 at
\* every sample time (the root's scaled rest translation is taken to be the zero
\* vector, whatever the skeleton lists for it), whatever the root translation curves
\* hold: replacing the root's X/Z curves by any others leaves every foot position as it
\* is, and the root's Y translation is (curve(t) - rest y) * scale.
C26_InPlaceRoot ==
    (FeetDone /\ call_args.in_place) =>
        /\ Len(call_result.root_trans) = Len(call_args.t_samples)
        /\ \A k \in 1..Len(call_args.t_samples) :
              call_result.root_trans[k][1] = Zero /\ call_result.root_trans[k][3] = Zero
        /\ XZCurvesIgnored
        /\ YFollowsCurve
        /\ call_result.returned[3] = Heights(call_result.left_positions)
        /\ call_result.returned[4] = Heights(call_result.right_positions)

\* C26 as stated: in in-place mode the root's local X and Z translation equals its rest
\* value (the skeleton's rest translation of the root, scaled) at every sample time;
\* changing the root's X/Z curves never changes the foot positions, and Y follows its
\* curve.
C26_PinnedToSkeletonRest ==
    (FeetDone /\ call_args.in_place) =>
        /\ \A k \in 1..Len(call_args.t_samples) :
              /\ call_result.root_trans[k][1] =
                     RMul(call_args.skeleton.translations[1][1], call_args.skeleton.scale)
              /\ call_result.root_trans[k][3] =
                     RMul(call_args.skeleton.translations[1][3], call_args.skeleton.scale)
        /\ XZCurvesIgnored
        /\ YFollowsCurve

\* an in-place call whose root has drifting x and y curves, a held z curve and a
\* pre-rotation that turns x into height: the feet move with y only
C26_Witness ==
    /\ FeetDone
    /\ call_args.in_place
    /\ DOMAIN RootTranslationCurves = AxisNames
    /\ Len(RootTranslationCurves["x"].times) = 2
    /\ Len(RootTranslationCurves["y"].times) = 2
    /\ call_args.skeleton.pre_rotations[1][3] = R(90)
    /\ call_args.skeleton.translations[1][1] # Zero
    /\ call_result.root_trans[1][2] # call_result.root_trans[3][2]
    /\ call_result.left_positions[1] # call_result.left_positions[3]
    /\ call_result.left_positions # call_result.right_positions

\* ---------------------------------------------------------------------------------
\* C27
\* ---------------------------------------------------------------------------------

\* the arrays handed to fit_fourier at lines 613-614 and 622-623: phi with the samples
\* of a curve at t_samples, and phi with each contact array when both are non-empty
FitArraysAligned ==
    /\ Len(phi) = Len(t_samples)
    /\ (contacts_left # <<>> /\ contacts_right # <<>>) =>
           (Len(phi) = Len(contacts_left) /\ Len(phi) = Len(contacts_right))
    /\ \A curve \in BoneCurves : Len(sample_curve(<<curve>>, t_samples, Zero)) = Len(phi)

\* C27: from the sampling on, whichever strategy replaced the phase and whether or not
\* the stride correction rewrote it, phi has exactly sample_count entries, one per
\* sample time; when the bones and the contacts are fit, every fit_fourier call gets a
\* phase array and a value array of the same length.
C27_PhaseLength ==
    /\ Sampled => (Len(phi) = sample_count /\ Len(t_samples) = sample_count)
    /\ pc \in {"fit", "done"} => FitArraysAligned

\* a written payload whose phase came from a strategy and was rewritten by the stride
\* correction, both contact arrays being fit
C27_Witness ==
    /\ pc = "done"
    /\ payload.written
    /\ payload.has_contacts
    /\ phase_mode \in {"left_foot_contact_stride", "right_foot_min_stride",
                       "left_foot_auto_stride", "right_foot_auto_stride"}
    /\ sample_count > 2
    /\ Len(phi) = sample_count
    /\ Len(contacts_left) = sample_count

\* ---------------------------------------------------------------------------------
\* C28
\* ---------------------------------------------------------------------------------

WithinClip(period) == RLt(Zero, period) /\ RLe(period, duration)

\* C28: in every payload that is written, 0 < phase.cycle_duration <= duration: the
\* period of every strategy result that can be adopted lies in that range, the
\* normalized-time fallback and the stride correction write the duration itself.
C28_CycleWithinClip ==
    /\ payload.written =>
           /\ RLt(Zero, payload.phase.cycle_duration)
           /\ RLe(payload.phase.cycle_duration, payload.duration)
    /\ Sampled => WithinClip(cycle_duration)
    /\ \A k \in 1..Len(calls) :
           calls[k].result.phase # <<>> => WithinClip(calls[k].result.period)

\* a written payload whose cycle is a strategy's period, shorter than the clip
C28_Witness ==
    /\ payload.written
    /\ payload.phase.mode \in {"left_foot_contact", "right_foot_min", "right_foot_auto"}
    /\ RLt(Zero, payload.phase.cycle_duration)
    /\ RLt(payload.phase.cycle_duration, payload.duration)
    /\ \E k \in 1..Len(calls) : calls[k].result.period = payload.phase.cycle_duration

\* ---------------------------------------------------------------------------------
\* C30
\* ---------------------------------------------------------------------------------

\* the labels a strategy leaves in phase_mode (lines 555-591)
WinnerLabels ==
    {"left_foot_contact", "right_foot_contact", "left_foot_min", "right_foot_min",
     "left_foot_auto", "right_foot_auto"}

StrideLabels == {label \o "_stride" : label \in WinnerLabels}

\* C30: the stride correction never fires on the normalized-time fallback (without a
\* skeleton it is not reached, with one the ratio is 1), so phase_mode is never
\* "normalized_time_stride"; and whenever phase_mode ends in "_stride", phi is the
\* normalized-time phase i / sample_count and cycle_duration is the duration.
C30_StrideOnlyOnStrategy ==
    /\ phase_mode # "normalized_time_stride"
    /\ Sampled => phase_mode \in {"normalized_time"} \cup WinnerLabels \cup StrideLabels
    /\ phase_mode \in StrideLabels =>
           /\ phi = NormalizedPhase(sample_count)
           /\ cycle_duration = duration
    /\ (pc \in {"fit", "done"} /\ phase_mode = "normalized_time") =>
           /\ phi = NormalizedPhase(sample_count)
           /\ cycle_duration = duration

\* a payload written after the stride correction replaced the phase of a cycle half
\* the clip long
C30_Witness ==
    /\ pc = "done"
    /\ payload.written
    /\ payload.phase.mode \in StrideLabels
    /\ payload.phase.cycle_duration = duration
    /\ phi = NormalizedPhase(sample_count)
    /\ \E k \in 1..Len(calls) :
          /\ calls[k].result.phase # <<>>
          /\ calls[k].result.phase # phi
          /\ RLt(calls[k].result.period, duration)

=============================================================================
